---- MODULE Spec2Model ----
(***************************************************************************)
(* glzip: byte-run-length neighbour codec, edge-list -> CSR builders and   *)
(* the union of two CSRs, modelled from the Rust sources.                  *)
(*                                                                         *)
(* Vertex ids are u32 in the source.  The ids used here stay below 2^31,   *)
(* so no u32 addition of the encoder or of a well-formed decode wraps.     *)
(***************************************************************************)
EXTENDS Integers, Sequences, FiniteSets, TLC

VARIABLES
    c_source,   \* codec: the source vertex the list is encoded against
    c_edges,    \* codec: the strictly increasing neighbour list handed to encode
    c_bytes,    \* codec: the Vec<u8> written by encoder::encode
    c_out,      \* codec: the values decode_map passed to its callback, in order
    c_count,    \* codec: the result of decoder::count
    c_pc,       \* codec: "input" -> "encoded" -> "decoded"
    b_edges,    \* builders: the multiset of input edges, as an ascending sequence
    b_par1,     \* builders: the CSR of the first run of edgelist_to_csr (csr/par.rs)
    b_par2,     \* builders: the CSR of the second run, on another order and schedule
    b_csr,      \* builders: the CSR of CSR::from_buffer (csr.rs)
    b_rev,      \* builders: the CSR built from the flipped edges of b_csr
    b_rev2,     \* builders: the CSR built from the flipped edges of b_rev
    b_run2,     \* builders: the buffer and the schedule the second run was given
    b_pc,       \* builders: "input" -> "par1" -> "par2" | "csr" -> "rev" -> "rev2", or "panicked"
    u_g,        \* union: the CSR a, the left operand and the accumulator of a |= b
    u_h,        \* union: the CSR b, the right operand
    u_old,      \* union: the left operand as it was when the last union began
    u_res,      \* union: the CSR the last union returned (or stored into a)
    u_op,       \* union: the last operation: "new", "fromG", "fromH", "ref", "val", "assign", "chunk"
    x_cell,     \* atomic add: the AtomicU64 cell (its f64 value, addition taken as exact)
    x_init,     \* atomic add: the value the cell held before any call
    x_y,        \* atomic add: per thread, the addend y of its call
    x_old,      \* atomic add: per thread, the local `old`
    x_pc,       \* atomic add: per thread, "idle" | "load" | "loop" | "done"
    x_fails,    \* atomic add: the number of failed exchanges so far
    i_fn,       \* ingestion: "try_from_edges" | "try_from_edges_with_capacity" | "build"
    i_items,    \* ingestion: the items of the input iterator, Ok(edge) or Err(e)
    i_n,        \* ingestion: edges_per_chunk of the CSRBuilder
    i_pos,      \* ingestion: the number of items pulled from the iterator so far
    i_buf,      \* ingestion: the Vec<Edge> buf
    i_csr,      \* ingestion: the accumulator csr of CSRBuilder::build
    i_fed,      \* ingestion: every edge handed to from_buffer so far, in order
    i_res,      \* ingestion: the returned Result
    i_pc,       \* ingestion: "idle" | "loop" | "done"
    s_csr,      \* sampler: the CSR the GraphSageSampler borrows
    s_sizes,    \* sampler: the fan-out list
    s_seeds,    \* sampler: input_nodes of sample
    s_nodes,    \* sampler: the local `nodes` of sample
    s_adjs,     \* sampler: the local `adjs` of sample (returned after the reverse)
    s_layers,   \* sampler: per finished loop pass, what the kernel and reindex computed
    s_pc,       \* sampler: "idle" | "loop" | "returned" | "panicked"
    r_csr,      \* reorder: the CSR csr given to by_access_probabilites
    r_vs,       \* reorder: the vector vs the endpoints are rewritten through
    r_new,      \* reorder: new_csr
    r_pc,       \* reorder: "idle" | "sorted" | "done" | "panicked"
    p_fn,       \* probability: "probability_calculation" (csr/par.rs) | "by_access_probabilites" (reorder.rs)
    p_graph,    \* probability: the CSR graph / csr
    p_train,    \* probability: train_idx
    p_sizes,    \* probability: sizes
    p_incoming, \* probability: the CSR incoming
    p_adj,      \* probability: what incoming.adj(v) yields, per vertex v
    p_in,       \* probability: in_degree
    p_out,      \* probability: out_degree
    p_p,        \* probability: the cells p, each an f64 scaled to an integer
    p_stack,    \* probability: per training vertex, the stack of its calc_prob calls
    p_probs,    \* probability: the returned vector
    p_pc,       \* probability: "idle" | "start" | "input" | "running" | "done" | "panicked"
    f_xs,       \* split search: the slice xs
    f_i,        \* split search: the i of (0..) the scan is at
    f_cont,     \* split search: the flag cont of the scan
    f_wins,     \* split search: the windows (start, end) inspected so far
    f_res,      \* split search: the index returned, -1 for None
    f_pc,       \* split search: "idle" | "scan" | "done"
    e_vect,     \* exclusive_sum: the vector vect
    e_lens,     \* exclusive_sum: the lengths of the chunks the fold was split into
    e_parts,    \* exclusive_sum: the vectors still to be reduced, left to right
    e_pc,       \* exclusive_sum: "idle" | "fold" | "reduce" | "done"
    k_bytes,    \* builder configuration: the argument of bytes_per_chunk
    k_res       \* builder configuration: "none" | "ok" | "err", what bytes_per_chunk returned

unionVars == <<u_g, u_h, u_old, u_res, u_op>>

codecVars == <<c_source, c_edges, c_bytes, c_out, c_count, c_pc>>

buildVars == <<b_edges, b_par1, b_par2, b_csr, b_rev, b_rev2, b_run2, b_pc>>

atomVars == <<x_cell, x_init, x_y, x_old, x_pc, x_fails>>

ingestVars == <<i_fn, i_items, i_n, i_pos, i_buf, i_csr, i_fed, i_res, i_pc>>

sampVars == <<s_csr, s_sizes, s_seeds, s_nodes, s_adjs, s_layers, s_pc>>

reordVars == <<r_csr, r_vs, r_new, r_pc>>

probVars == <<p_fn, p_graph, p_train, p_sizes, p_incoming, p_adj, p_in, p_out, p_p, p_stack,
              p_probs, p_pc>>

splitVars == <<f_xs, f_i, f_cont, f_wins, f_res, f_pc>>

sumVars == <<e_vect, e_lens, e_parts, e_pc>>

chunkVars == <<k_bytes, k_res>>

lateVars == <<splitVars, sumVars, chunkVars>>

extVars == <<atomVars, ingestVars, sampVars, reordVars, probVars, lateVars>>

vars == <<codecVars, buildVars, unionVars, extVars>>

----------------------------------------------------------------------------
(* Bounds of the model.                                                    *)

\* picks of CodecValues in one neighbour list
MaxPicks == 3
\* length of the arithmetic run appended to a neighbour list
MaxRun == 66
\* largest vertex id of an input edge of the builders
MaxVertex == 2
\* number of edges in an input buffer of the builders
MaxBuf == 3
\* depth to which the work-stealing pool splits a parallel iterator
MaxSplits == 2
\* largest vertex id of an edge of a union operand
MaxUnionVertex == 1
\* number of edges in a buffer a union operand is built from
MaxChunk == 3

\* Threads calling atomic_add_f64 on one cell, and failed exchanges counted.
MaxThreads == 3

MaxFails == 2

\* Items of a fallible input iterator, and edges_per_chunk of the builder.
MaxItems == 3

MaxEdgesPerChunk == 2

\* Seeds of a sample call, layers (fan-outs) of the sampler, and the largest fan-out.
MaxSeeds == 2

MaxLayers == 2

MaxFanOut == 2

\* length of the sorted slice handed to the split search
MaxSlice == 8

\* Length and largest item of the vector handed to exclusive_sum, and the
\* number of chunks the parallel fold cuts the chained sequence into.
MaxSumLen == 3

MaxSumItem == 2

MaxSumChunks == 3

\* Training vertices (parallel seed tasks) and fan-outs of the probability computation.
MaxTrain == 2

MaxProbLayers == 2

\* lib.rs: size_of::<[u32; 2]>() and GIBIBYTE / BYTES_PER_EDGE.
BYTES_PER_EDGE == 8

DEFAULT_EDGES_PER_CHUNK == 134217728

----------------------------------------------------------------------------
(* Generic helpers.                                                        *)

Max(a, b) == IF a >= b THEN a ELSE b

Min(a, b) == IF a <= b THEN a ELSE b

Last(s) == s[Len(s)]

\* The ascending sequence of the elements of a finite set of integers.
RECURSIVE SortSet(_)
SortSet(S) ==
    IF S = {} THEN <<>>
    ELSE LET m == CHOOSE x \in S : \A y \in S : x <= y
         IN  <<m>> \o SortSet(S \ {m})

Range(s) == {s[i] : i \in 1..Len(s)}

----------------------------------------------------------------------------
(* encoder.rs                                                              *)

ONE_BYTE == 256

TWO_BYTES == 65536

THREE_BYTES == 16777216

\* capacity of the run buffer of next_group: `for i in 0..64`
GROUP_CAP == 64

\* The continuation bytes without the flag 0x80 on any of them.
RECURSIVE enc_first_edge_rest_noflag(_, _)
enc_first_edge_rest_noflag(b, diff) ==
    IF (b > 0) \/ (diff > 0)
    THEN <<b>> \o enc_first_edge_rest_noflag((diff \div 128) % 128, diff \div 128)
    ELSE <<>>

\* The continuation bytes of the gap head: the `Some(b)` arm of the closure of
\* first_edge, called with the pending byte b and the remaining diff.
RECURSIVE enc_first_edge_rest(_, _)
enc_first_edge_rest(b, diff) ==
    IF (b > 0) \/ (diff > 0)
    THEN LET d2 == diff \div 128
             next_byte == IF d2 > 0 THEN b + 128 ELSE b
         IN  <<next_byte>> \o enc_first_edge_rest(d2 % 128, d2)
    ELSE <<>>

\* first_edge without the sign flag 0x40.
enc_first_edge_nosign(source, target) ==
    LET diff == IF target >= source THEN target - source ELSE source - target
        d1 == diff \div 64
        first_byte == (diff % 64) + (IF d1 > 0 THEN 128 ELSE 0)
    IN  <<first_byte>> \o enc_first_edge_rest(d1 % 128, d1)

\* encoder::first_edge: the bytes appended for the first neighbour.
enc_first_edge(source, target) ==
    LET diff == IF target >= source THEN target - source ELSE source - target
        d1 == diff \div 64
        first_byte == (diff % 64)
                      + (IF target < source THEN 64 ELSE 0)
                      + (IF d1 > 0 THEN 128 ELSE 0)
    IN  <<first_byte>> \o enc_first_edge_rest(d1 % 128, d1)

\* The arm of next_group a delta selects: its width in bytes.
WidthOf(d) ==
    IF d < ONE_BYTE THEN 1
    ELSE IF d < TWO_BYTES THEN 2
    ELSE IF d < THREE_BYTES THEN 3
    ELSE 4

\* The loop taking up to 64 deltas whatever their width.
RECURSIVE TakeRun_anywidth(_, _, _)
TakeRun_anywidth(diffs, w, i) ==
    IF i < GROUP_CAP /\ diffs # <<>>
    THEN 1 + TakeRun_anywidth(Tail(diffs), w, i + 1)
    ELSE 0

\* The `for i in 0..64 { diffs.next_if(..) }` loop: how many deltas are taken.
RECURSIVE TakeRun(_, _, _)
TakeRun(diffs, w, i) ==
    IF i < GROUP_CAP /\ diffs # <<>> /\ WidthOf(Head(diffs)) = w
    THEN 1 + TakeRun(Tail(diffs), w, i + 1)
    ELSE 0

\* One delta as w big-endian bytes.
BigEndian(d, w) ==
    IF w = 1 THEN <<d % 256>>
    ELSE IF w = 2 THEN <<(d \div 256) % 256, d % 256>>
    ELSE IF w = 3 THEN <<(d \div 65536) % 256, (d \div 256) % 256, d % 256>>
    ELSE <<(d \div 16777216) % 256, (d \div 65536) % 256, (d \div 256) % 256, d % 256>>

RECURSIVE Payload(_, _)
Payload(ds, w) ==
    IF ds = <<>> THEN <<>> ELSE BigEndian(Head(ds), w) \o Payload(Tail(ds), w)

\* encoder::next_group: the bytes of one group and the deltas left over.
next_group(diffs) ==
    IF diffs = <<>> THEN [bytes |-> <<>>, rest |-> <<>>]
    ELSE LET w == WidthOf(Head(diffs))
             n == TakeRun(diffs, w, 0)
             j == n - 1
             header == (w - 1) + ((j * 4) % 256)
         IN  [bytes |-> <<header>> \o Payload(SubSeq(diffs, 1, j + 1), w),
              rest  |-> SubSeq(diffs, n + 1, Len(diffs))]

\* encoder::Diffs: y - x for every pair of consecutive items.
Diffs(edges) == [i \in 1..(Len(edges) - 1) |-> edges[i + 1] - edges[i]]

\* The `while diffs.peek().is_some()` loop of encode.
RECURSIVE enc_groups(_)
enc_groups(diffs) ==
    IF diffs = <<>> THEN <<>>
    ELSE LET g == next_group(diffs)
         IN  g.bytes \o enc_groups(g.rest)

\* encoder::encode: the bytes appended to `bytes`.
encode(bytes, source, edges) ==
    IF edges = <<>> THEN bytes
    ELSE bytes \o enc_first_edge(source, edges[1]) \o enc_groups(Diffs(edges))

----------------------------------------------------------------------------
(* decoder.rs                                                              *)

\* What a decode yields when it panics (unreachable!(), split_at past the end,
\* u32 overflow with overflow checks) or, without overflow checks, wraps to an
\* id far above every vertex: no neighbour list.
Corrupt == <<-1>>

\* The continuation loop of decoder::first_edge.
RECURSIVE dec_first_edge_rest(_, _, _)
dec_first_edge_rest(bytes, diff, mult) ==
    IF bytes = <<>> THEN [ok |-> FALSE, diff |-> 0, rest |-> <<>>]
    ELSE LET b == Head(bytes)
             d2 == diff + (b % 128) * mult
         IN  IF b >= 128
             THEN dec_first_edge_rest(Tail(bytes), d2, mult * 128)
             ELSE [ok |-> TRUE, diff |-> d2, rest |-> Tail(bytes)]

\* decoder::first_edge: the first neighbour and the bytes after the gap head.
dec_first_edge(source, bytes) ==
    IF bytes = <<>> THEN [some |-> FALSE, ok |-> TRUE, edge |-> 0, rest |-> <<>>]
    ELSE LET first_byte == Head(bytes)
             low == first_byte % 64
             r == IF first_byte >= 128
                  THEN dec_first_edge_rest(Tail(bytes), low, 64)
                  ELSE [ok |-> TRUE, diff |-> low, rest |-> Tail(bytes)]
             neg == (first_byte \div 64) % 2 = 1
         IN  [some |-> TRUE,
              ok   |-> r.ok /\ (neg => source >= r.diff),
              edge |-> IF neg THEN source - r.diff ELSE source + r.diff,
              rest |-> r.rest]

\* One chunk of num_bytes bytes read big-endian.
RECURSIVE FromBigEndian(_)
FromBigEndian(chunk) ==
    IF chunk = <<>> THEN 0
    ELSE Last(chunk) + 256 * FromBigEndian(SubSeq(chunk, 1, Len(chunk) - 1))

\* The inner loops of next_groups_map: the running sums of the deltas of `left`.
RECURSIVE dec_run(_, _, _)
dec_run(p_edge, left, num_bytes) ==
    IF left = <<>> THEN <<>>
    ELSE LET sum == p_edge + FromBigEndian(SubSeq(left, 1, num_bytes))
         IN  <<sum>> \o dec_run(sum, SubSeq(left, num_bytes + 1, Len(left)), num_bytes)

\* decoder::next_groups_map: the values passed to op, or Corrupt.
RECURSIVE next_groups_map(_, _)
next_groups_map(prev_edge, bytes) ==
    IF bytes = <<>> THEN <<>>
    ELSE LET header == Head(bytes)
             num_bytes == (header % 4) + 1
             run_length == (header \div 4) + 1
             body == Tail(bytes)
         IN  IF num_bytes * run_length > Len(body) THEN Corrupt
             ELSE LET left == SubSeq(body, 1, num_bytes * run_length)
                      right == SubSeq(body, num_bytes * run_length + 1, Len(body))
                      vals == dec_run(prev_edge, left, num_bytes)
                      more == next_groups_map(Last(vals), right)
                  IN  IF more = Corrupt THEN Corrupt ELSE vals \o more

\* decoder::decode_map: the values passed to op, in call order.
decode_map(source, bytes) ==
    LET f == dec_first_edge(source, bytes)
    IN  IF ~f.some THEN <<>>
        ELSE IF ~f.ok THEN Corrupt
        ELSE LET more == next_groups_map(f.edge, f.rest)
             IN  IF more = Corrupt THEN Corrupt ELSE <<f.edge>> \o more

\* The header walk of decoder::count.
RECURSIVE count_groups(_)
count_groups(bytes) ==
    IF bytes = <<>> THEN 0
    ELSE LET header == Head(bytes)
             num_bytes == (header % 4) + 1
             run_length == (header \div 4) + 1
             body == Tail(bytes)
         IN  IF num_bytes * run_length > Len(body) THEN -1
             ELSE LET more == count_groups(SubSeq(body, num_bytes * run_length + 1, Len(body)))
                  IN  IF more < 0 THEN -1 ELSE run_length + more

\* decoder::count: the number of neighbours, or -1 where the source panics.
count(source, bytes) ==
    LET f == dec_first_edge(source, bytes)
    IN  IF ~f.some THEN 0
        ELSE IF ~f.ok THEN -1
        ELSE LET more == count_groups(f.rest)
             IN  IF more < 0 THEN -1 ELSE 1 + more

----------------------------------------------------------------------------
(* iter.rs                                                                 *)

\* Dedup::next, collected: every item that differs from the item before it.
RECURSIVE dedup(_)
dedup(s) ==
    IF Len(s) <= 1 THEN s
    ELSE IF s[1] = s[2] THEN dedup(Tail(s))
    ELSE <<s[1]>> \o dedup(Tail(s))

\* Union::next with the Equal arm yielding the item of both iterators.
RECURSIVE union_dup(_, _)
union_dup(xs, ys) ==
    IF xs = <<>> THEN ys
    ELSE IF ys = <<>> THEN xs
    ELSE IF Head(xs) <= Head(ys) THEN <<Head(xs)>> \o union_dup(Tail(xs), ys)
    ELSE <<Head(ys)>> \o union_dup(xs, Tail(ys))

\* Union::next, collected: the merge of two ascending iterators, an item that
\* heads both taken once.
RECURSIVE union(_, _)
union(xs, ys) ==
    IF xs = <<>> THEN ys
    ELSE IF ys = <<>> THEN xs
    ELSE IF Head(xs) < Head(ys) THEN <<Head(xs)>> \o union(Tail(xs), ys)
    ELSE IF Head(xs) = Head(ys) THEN <<Head(xs)>> \o union(Tail(xs), Tail(ys))
    ELSE <<Head(ys)>> \o union(xs, Tail(ys))

----------------------------------------------------------------------------
(* The CSR container: csr.rs and csr/mod.rs.  An edge is <<u, v>>.         *)

\* CSR::new (csr/mod.rs) and the empty-buffer return of from_buffer (csr.rs)
CSR_new == [vertices |-> <<>>, num_edges |-> 0, edges |-> <<>>]

\* CSR::order: self.vertices.len().saturating_sub(1)
order(csr) == Max(Len(csr.vertices) - 1, 0)

\* CSR::size
size(csr) == csr.num_edges

\* &self.edges[start..end]: in bounds exactly when start <= end <= len.
SliceOk(csr, i) ==
    /\ csr.vertices[i + 1] <= csr.vertices[i + 2]
    /\ csr.vertices[i + 2] <= Len(csr.edges)

\* CSR::neighbors (csr.rs): the decoded slice of a vertex, nothing for a vertex
\* at or above the order, Corrupt where the slice or the decode panics.
neighbors(csr, source) ==
    IF source + 2 > Len(csr.vertices) THEN <<>>
    ELSE IF ~SliceOk(csr, source) THEN Corrupt
    ELSE decode_map(source,
                    SubSeq(csr.edges, csr.vertices[source + 1] + 1, csr.vertices[source + 2]))

\* CSR::degree (csr.rs)
degree(csr, source) ==
    IF source + 2 > Len(csr.vertices) THEN 0
    ELSE IF ~SliceOk(csr, source) THEN -1
    ELSE count(source,
               SubSeq(csr.edges, csr.vertices[source + 1] + 1, csr.vertices[source + 2]))

\* CSR::raw_adj (csr/mod.rs): the bytes of a vertex; <<>> stands for None.
raw_adj(csr, source) ==
    IF source + 2 > Len(csr.vertices) THEN <<>>
    ELSE IF ~SliceOk(csr, source) THEN Corrupt
    ELSE SubSeq(csr.edges, csr.vertices[source + 1] + 1, csr.vertices[source + 2])

\* CSR::adj (csr/mod.rs)
adj(csr, source) ==
    LET slice == raw_adj(csr, source)
    IN  IF slice = Corrupt THEN Corrupt ELSE decode_map(source, slice)

\* What edges() stands for when the walk of some vertex panics.
CorruptEdges == <<<<-1, -1>>>>

\* CSR::edges (csr.rs): every (u, v) in vertex order, CorruptEdges if a vertex panics.
RECURSIVE edges_from(_, _)
edges_from(csr, u) ==
    IF u >= order(csr) THEN <<>>
    ELSE LET ns == neighbors(csr, u)
             more == edges_from(csr, u + 1)
         IN  IF ns = Corrupt \/ more = CorruptEdges THEN CorruptEdges
             ELSE [i \in 1..Len(ns) |-> <<u, ns[i]>>] \o more

edges(csr) == edges_from(csr, 0)

----------------------------------------------------------------------------
(* csr/mod.rs: the union of two CSRs.                                      *)

\* One pass of the `for u in 0..new_len.saturating_sub(1)` loop of bitor on
\* the accumulator [vertices, num_edges, edges].
bitor_step(acc, self, rhs, u) ==
    LET vs == raw_adj(self, u)
        ws == raw_adj(rhs, u)
        vertices == Append(acc.vertices, Len(acc.edges))
    IN  IF vs # <<>> /\ ws # <<>>
        THEN LET merged == union(decode_map(u, vs), decode_map(u, ws))
             IN  [vertices  |-> vertices,
                  num_edges |-> acc.num_edges + Len(merged),
                  edges     |-> encode(acc.edges, u, merged)]
        ELSE IF vs # <<>>
        THEN [vertices |-> vertices, num_edges |-> acc.num_edges, edges |-> acc.edges \o vs]
        ELSE [vertices |-> vertices, num_edges |-> acc.num_edges, edges |-> acc.edges \o ws]

RECURSIVE bitor_loop(_, _, _, _, _)
bitor_loop(acc, self, rhs, u, n) ==
    IF u >= n THEN acc
    ELSE bitor_loop(bitor_step(acc, self, rhs, u), self, rhs, u + 1, n)

\* bitor without the closing vertices.push(edges.len()).
bitor_ref_nopush(self, rhs) ==
    LET new_len == Max(Len(self.vertices), Len(rhs.vertices))
        acc == bitor_loop(CSR_new, self, rhs, 0, Max(new_len - 1, 0))
    IN  [vertices  |-> acc.vertices,
         num_edges |-> acc.num_edges,
         edges     |-> acc.edges]

\* impl BitOr for &CSR: &self | &rhs
bitor_ref(self, rhs) ==
    LET new_len == Max(Len(self.vertices), Len(rhs.vertices))
        acc == bitor_loop(CSR_new, self, rhs, 0, Max(new_len - 1, 0))
    IN  [vertices  |-> Append(acc.vertices, Len(acc.edges)),
         num_edges |-> acc.num_edges,
         edges     |-> acc.edges]

\* impl BitOr for CSR: self | rhs
bitor(self, rhs) ==
    IF Len(self.vertices) = 0 THEN rhs
    ELSE IF Len(rhs.vertices) = 0 THEN self
    ELSE bitor_ref(self, rhs)

\* impl BitOrAssign for CSR: the value of *self after self |= rhs
bitor_assign(self, rhs) ==
    IF Len(self.vertices) = 0 THEN rhs
    ELSE IF Len(rhs.vertices) = 0 THEN self
    ELSE bitor_ref(self, rhs)

----------------------------------------------------------------------------
(* Sorting and the parallel prefix sum.                                    *)

EdgeLE(a, b) == a[1] < b[1] \/ (a[1] = b[1] /\ a[2] <= b[2])

RECURSIVE InsertEdge(_, _)
InsertEdge(e, s) ==
    IF s = <<>> THEN <<e>>
    ELSE IF EdgeLE(e, Head(s)) THEN <<e>> \o s
    ELSE <<Head(s)>> \o InsertEdge(e, Tail(s))

\* buf.par_sort_unstable(): the buffer in lexicographic order (equal edges are
\* indistinguishable, so the instability shows nowhere).
RECURSIVE par_sort_unstable(_)
par_sort_unstable(buf) ==
    IF buf = <<>> THEN <<>>
    ELSE InsertEdge(Head(buf), par_sort_unstable(Tail(buf)))

\* The fold closure of exclusive_sum on one chunk: running sums, the first item as is.
RECURSIVE FoldSum(_, _)
FoldSum(acc, chunk) ==
    IF chunk = <<>> THEN acc
    ELSE FoldSum(Append(acc, IF acc = <<>> THEN Head(chunk) ELSE Last(acc) + Head(chunk)),
                 Tail(chunk))

\* The reduce closure without .map(|x| x + sum).
ReduceSum_noshift(left, right) == left \o right

\* The reduce closure of exclusive_sum.
ReduceSum(left, right) ==
    IF left = <<>> THEN right
    ELSE left \o [i \in 1..Len(right) |-> right[i] + Last(left)]

\* The chain cut into consecutive chunks of the given lengths.
RECURSIVE CutChunks(_, _)
CutChunks(chain, lens) ==
    IF lens = <<>> THEN <<>>
    ELSE <<SubSeq(chain, 1, Head(lens))>>
         \o CutChunks(SubSeq(chain, Head(lens) + 1, Len(chain)), Tail(lens))

RECURSIVE ReduceAll(_)
ReduceAll(parts) ==
    IF parts = <<>> THEN <<>>
    ELSE ReduceSum(Head(parts), ReduceAll(Tail(parts)))

\* exclusive_sum(init, vect) with the fold leaves being the chunks `lens` cuts.
exclusive_sum(init, vect, lens) ==
    LET chunks == CutChunks(<<init>> \o vect, lens)
    IN  ReduceAll([i \in 1..Len(chunks) |-> FoldSum(<<>>, chunks[i])])

\* vec.resize(n, 0)
Resize(s, n) ==
    IF n <= Len(s) THEN SubSeq(s, 1, n) ELSE s \o [i \in 1..(n - Len(s)) |-> 0]

\* The `for (u, nnz) in nodes_and_nnzs` loop of both builders.
RECURSIVE FillNnzs(_, _)
FillNnzs(nnzs, nodes_and_nnzs) ==
    IF nodes_and_nnzs = <<>> THEN nnzs
    ELSE FillNnzs(Append(Resize(nnzs, Head(nodes_and_nnzs)[1]), Head(nodes_and_nnzs)[2]),
                  Tail(nodes_and_nnzs))

----------------------------------------------------------------------------
(* csr/par.rs: the divide-and-conquer builder.                             *)

\* The first mismatch as an index into the window, without .map(|i| start + i).
FirstMismatch_relative(xs, start, end) ==
    LET I == {i \in start..(end - 2) : xs[i + 1][1] # xs[i + 2][1]}
    IN  IF I = {} THEN -1 ELSE (CHOOSE i \in I : \A j \in I : i <= j) - start

\* xs[start..end].windows(2).enumerate().find_map(..).map(|i| start + i):
\* the first 0-based i in the window with differing sources, -1 for None.
FirstMismatch(xs, start, end) ==
    LET I == {i \in start..(end - 2) : xs[i + 1][1] # xs[i + 2][1]}
    IN  IF I = {} THEN -1 ELSE CHOOSE i \in I : \A j \in I : i <= j

\* The scan of find_index_edgelist from step i on.
RECURSIVE find_index_scan(_, _)
find_index_scan(xs, i) ==
    LET n == Len(xs) \div 2
        offset == 2 * i
        start == Max(n - offset, 0)
        end == n + offset
        whole == ~(1 <= start /\ start < Len(xs)) \/ ~(2 <= end /\ end < Len(xs))
        found == IF whole THEN FirstMismatch(xs, 0, Len(xs))
                 ELSE FirstMismatch(xs, start, end)
    IN  IF found >= 0 THEN found
        ELSE IF whole THEN -1
        ELSE find_index_scan(xs, i + 1)

\* A split at the middle of the slice, whatever the sources around it.
find_index_edgelist_mid(xs) == IF Len(xs) >= 2 THEN (Len(xs) \div 2) - 1 ELSE -1

\* find_index_edgelist: -1 stands for None.
find_index_edgelist(xs) == find_index_scan(xs, 0)

\* The leaf without the dedup adaptor.
par_leaf_nodedup(xs) ==
    IF xs = <<>> THEN [nodes |-> <<>>, blob |-> <<>>, adds |-> <<>>]
    ELSE LET u == xs[1][1]
             bytes == encode(<<>>, u, [i \in 1..Len(xs) |-> xs[i][2]])
         IN  [nodes |-> <<<<u, Len(bytes)>>>>, blob |-> bytes, adds |-> <<Len(xs)>>]

\* The leaf of rec_edgelist_to_csr: dedup, encode into a local buffer.
par_leaf(xs) ==
    LET iter == dedup(xs)
    IN  IF iter = <<>> THEN [nodes |-> <<>>, blob |-> <<>>, adds |-> <<>>]
        ELSE LET u == iter[1][1]
                 bytes == encode(<<>>, u, [i \in 1..Len(iter) |-> iter[i][2]])
             IN  [nodes |-> <<<<u, Len(bytes)>>>>, blob |-> bytes, adds |-> <<Len(iter)>>]

\* rec_edgelist_to_csr appending the blobs of the halves in the order they finish.
RECURSIVE rec_edgelist_to_csr_racy(_, _)
rec_edgelist_to_csr_racy(edgelist, right_first) ==
    LET i == find_index_edgelist(edgelist)
    IN  IF i < 0 THEN par_leaf(edgelist)
        ELSE LET l == rec_edgelist_to_csr_racy(SubSeq(edgelist, 1, i + 1), right_first)
                 r == rec_edgelist_to_csr_racy(SubSeq(edgelist, i + 2, Len(edgelist)), right_first)
             IN  IF right_first
                 THEN [nodes |-> l.nodes \o r.nodes, blob |-> r.blob \o l.blob,
                       adds |-> r.adds \o l.adds]
                 ELSE [nodes |-> l.nodes \o r.nodes, blob |-> l.blob \o r.blob,
                       adds |-> l.adds \o r.adds]

\* rec_edgelist_to_csr: (nodes_and_nnzs, blob) and, in `adds`, the operands of
\* global_num_edges.fetch_add in the order the tasks run; right_first says
\* which half of every rayon::join runs first.
RECURSIVE rec_edgelist_to_csr(_, _)
rec_edgelist_to_csr(edgelist, right_first) ==
    LET i == find_index_edgelist(edgelist)
    IN  IF i < 0 THEN par_leaf(edgelist)
        ELSE LET l == rec_edgelist_to_csr(SubSeq(edgelist, 1, i + 1), right_first)
                 r == rec_edgelist_to_csr(SubSeq(edgelist, i + 2, Len(edgelist)), right_first)
             IN  [nodes |-> l.nodes \o r.nodes,
                  blob  |-> l.blob \o r.blob,
                  adds  |-> IF right_first THEN r.adds \o l.adds ELSE l.adds \o r.adds]

\* AtomicUsize::fetch_add applied in order.
RECURSIVE FetchAddAll(_, _)
FetchAddAll(x, adds) ==
    IF adds = <<>> THEN x ELSE FetchAddAll(x + Head(adds), Tail(adds))

\* edgelist_to_csr with CSR::from_buffer of csr/mod.rs around it.
edgelist_to_csr(edgelist, right_first, lens) ==
    LET sorted == par_sort_unstable(edgelist)
        rec == rec_edgelist_to_csr(sorted, right_first)
        nnzs == FillNnzs(<<>>, rec.nodes)
    IN  [vertices  |-> exclusive_sum(0, nnzs, lens),
         num_edges |-> FetchAddAll(0, rec.adds),
         edges     |-> rec.blob]

----------------------------------------------------------------------------
(* csr.rs and par.rs: the group_by builder.                                *)

\* par::max over the sources (k = 1) or the targets (k = 2); -1 stands for None.
par_max(buf, k) ==
    IF buf = <<>> THEN -1
    ELSE CHOOSE m \in {buf[i][k] : i \in 1..Len(buf)} :
            \A i \in 1..Len(buf) : buf[i][k] <= m

\* par::find_index with the predicate |e1, e2| e1.0 == e2.0 of from_buffer.
find_index(xs) == find_index_scan(xs, 0)

\* The slices GroupByProducer hands to fold_with when bridge_unindexed splits
\* every producer that can be split down to depth `splits` and no further.
RECURSIVE GroupByLeaves(_, _)
GroupByLeaves(slice, splits) ==
    LET i == IF splits = 0 THEN -1 ELSE find_index(slice)
    IN  IF i < 0 THEN <<slice>>
        ELSE GroupByLeaves(SubSeq(slice, 1, i + 1), splits - 1)
             \o GroupByLeaves(SubSeq(slice, i + 2, Len(slice)), splits - 1)

\* slice.group_by(pred): the maximal runs of edges with one source.
RECURSIVE group_by(_)
group_by(slice) ==
    IF slice = <<>> THEN <<>>
    ELSE LET I == {i \in 1..Len(slice) : \A j \in 1..i : slice[j][1] = slice[1][1]}
             n == CHOOSE i \in I : \A j \in I : j <= i
         IN  <<SubSeq(slice, 1, n)>> \o group_by(SubSeq(slice, n + 1, Len(slice)))

\* The fold closure of from_buffer on one group.
fold_op(acc, group) ==
    LET iter == dedup(group)
    IN  IF iter = <<>> THEN acc
        ELSE LET u == iter[1][1]
                 bytes == encode(acc.edges, u, [i \in 1..Len(iter) |-> iter[i][2]])
             IN  [num_edges |-> acc.num_edges + Len(iter),
                  nodes_and_nnzs |-> Append(acc.nodes_and_nnzs, <<u, Len(bytes)>>),
                  edges |-> bytes]

\* FoldFolder::consume_iter: one accumulator for all the groups of a leaf.
RECURSIVE fold_leaf(_, _)
fold_leaf(acc, groups) ==
    IF groups = <<>> THEN acc
    ELSE fold_leaf(fold_op(acc, Head(groups)), Tail(groups))

\* The reduce closure of from_buffer over the leaves, left to right.
RECURSIVE reduce_leaves(_)
reduce_leaves(accs) ==
    IF accs = <<>> THEN [num_edges |-> 0, nodes_and_nnzs |-> <<>>, edges |-> <<>>]
    ELSE LET right == reduce_leaves(Tail(accs))
         IN  [num_edges |-> Head(accs).num_edges + right.num_edges,
              nodes_and_nnzs |-> Head(accs).nodes_and_nnzs \o right.nodes_and_nnzs,
              edges |-> Head(accs).edges \o right.edges]

\* CSR::from_buffer (csr.rs)
from_buffer(buffer, splits, lens) ==
    LET buf == par_sort_unstable(buffer)
        num_nodes == Max(par_max(buf, 1), par_max(buf, 2))
        leaves == GroupByLeaves(buf, splits)
        folded == reduce_leaves(
                      [i \in 1..Len(leaves) |->
                          fold_leaf([num_edges |-> 0, nodes_and_nnzs |-> <<>>, edges |-> <<>>],
                                    group_by(leaves[i]))])
        nnzs == Resize(FillNnzs(<<>>, folded.nodes_and_nnzs), num_nodes + 1)
    IN  IF buf = <<>> THEN CSR_new
        ELSE [vertices  |-> exclusive_sum(0, nnzs, lens),
              num_edges |-> folded.num_edges,
              edges     |-> folded.edges]

----------------------------------------------------------------------------
(* The variables of the parts a specification leaves alone.                *)

CodecIdle ==
    /\ c_source = 0
    /\ c_edges = <<>>
    /\ c_bytes = <<>>
    /\ c_out = <<>>
    /\ c_count = 0
    /\ c_pc = "idle"

NoRun == [buf |-> <<>>, right_first |-> FALSE, splits |-> 0]

BuildIdle ==
    /\ b_edges = <<>>
    /\ b_par1 = CSR_new
    /\ b_par2 = CSR_new
    /\ b_csr = CSR_new
    /\ b_rev = CSR_new
    /\ b_rev2 = CSR_new
    /\ b_run2 = NoRun
    /\ b_pc = "idle"

UnionIdle ==
    /\ u_g = CSR_new
    /\ u_h = CSR_new
    /\ u_old = CSR_new
    /\ u_res = CSR_new
    /\ u_op = "idle"

AtomIdle ==
    /\ x_cell = 0
    /\ x_init = 0
    /\ x_y = <<>>
    /\ x_old = <<>>
    /\ x_pc = <<>>
    /\ x_fails = 0

NoResult == [kind |-> "none", csr |-> CSR_new, err |-> ""]

IngestIdle ==
    /\ i_fn = ""
    /\ i_items = <<>>
    /\ i_n = 0
    /\ i_pos = 0
    /\ i_buf = <<>>
    /\ i_csr = CSR_new
    /\ i_fed = <<>>
    /\ i_res = NoResult
    /\ i_pc = "idle"

SampIdle ==
    /\ s_csr = CSR_new
    /\ s_sizes = <<>>
    /\ s_seeds = <<>>
    /\ s_nodes = <<>>
    /\ s_adjs = <<>>
    /\ s_layers = <<>>
    /\ s_pc = "idle"

ReordIdle ==
    /\ r_csr = CSR_new
    /\ r_vs = <<>>
    /\ r_new = CSR_new
    /\ r_pc = "idle"

ProbIdle ==
    /\ p_fn = ""
    /\ p_graph = CSR_new
    /\ p_train = <<>>
    /\ p_sizes = <<>>
    /\ p_incoming = CSR_new
    /\ p_adj = <<>>
    /\ p_in = <<>>
    /\ p_out = <<>>
    /\ p_p = <<>>
    /\ p_stack = <<>>
    /\ p_probs = <<>>
    /\ p_pc = "idle"

SplitIdle ==
    /\ f_xs = <<>>
    /\ f_i = 0
    /\ f_cont = FALSE
    /\ f_wins = <<>>
    /\ f_res = -1
    /\ f_pc = "idle"

SumIdle ==
    /\ e_vect = <<>>
    /\ e_lens = <<>>
    /\ e_parts = <<>>
    /\ e_pc = "idle"

ChunkIdle ==
    /\ k_bytes = 0
    /\ k_res = "none"

LateIdle == SplitIdle /\ SumIdle /\ ChunkIdle

ExtIdle ==
    /\ AtomIdle
    /\ IngestIdle
    /\ SampIdle
    /\ ReordIdle
    /\ ProbIdle
    /\ LateIdle

----------------------------------------------------------------------------
(* The codec on one neighbour list.                                        *)

\* Sources and targets: small ids and ids whose gaps need 1, 2, 3 and 4 delta
\* bytes and 1 to 5 gap-head bytes.
CodecValues == {0, 3, 5, 70, 300, 8200, 70000, 16777300, 1073741900}

CodecSources == {0, 5, 8192, 1073741824}

RunSteps == {1, 256, 65536}

\* s followed by n further values, each `step` above the one before.
RECURSIVE Extend(_, _, _)
Extend(s, step, n) ==
    IF n = 0 THEN s ELSE Extend(Append(s, Last(s) + step), step, n - 1)

CodecLists ==
    LET Picks == {S \in SUBSET CodecValues : Cardinality(S) <= MaxPicks}
    IN  {SortSet(S) : S \in Picks}
        \cup {Extend(<<v>>, st, n) : v \in {1, 6}, st \in RunSteps, n \in 1..MaxRun}

CodecInit ==
    /\ c_source \in CodecSources
    /\ c_edges \in CodecLists
    /\ c_bytes = <<>>
    /\ c_out = <<>>
    /\ c_count = 0
    /\ c_pc = "input"
    /\ BuildIdle
    /\ UnionIdle
    /\ ExtIdle

\* encoder::encode(&mut bytes, source, edges)
Encode ==
    /\ c_pc = "input"
    /\ c_bytes' = encode(c_bytes, c_source, c_edges)
    /\ c_pc' = "encoded"
    /\ UNCHANGED <<c_source, c_edges, c_out, c_count>>
    /\ UNCHANGED <<buildVars, unionVars, extVars>>

\* decoder::decode_map(source, &bytes, |v| out.push(v)) and decoder::count(source, &bytes)
Decode ==
    /\ c_pc = "encoded"
    /\ c_out' = decode_map(c_source, c_bytes)
    /\ c_count' = count(c_source, c_bytes)
    /\ c_pc' = "decoded"
    /\ UNCHANGED <<c_source, c_edges, c_bytes>>
    /\ UNCHANGED <<buildVars, unionVars, extVars>>

CodecNext == Encode \/ Decode

SpecCodec == CodecInit /\ [][CodecNext]_vars

\* C1: decoding the bytes written by encode(s, L) yields exactly L, in order,
\* and count on the same bytes returns the length of L.
CodecRoundTrip ==
    c_pc = "decoded" => (c_out = c_edges /\ c_count = Len(c_edges))

\* C1 witness: a list whose first neighbour lies below the source and whose
\* deltas fill more than one group has been encoded and decoded.
CodecRoundTripWitness ==
    /\ c_pc = "decoded"
    /\ Len(c_edges) > GROUP_CAP + 1
    /\ c_edges[1] < c_source
    /\ c_out = c_edges

\* The number of 7-bit chunks that hold d: 0 for d = 0.
RECURSIVE ChunkCount(_)
ChunkCount(d) == IF d = 0 THEN 0 ELSE 1 + ChunkCount(d \div 128)

\* |v - s| for the source and the first neighbour that were encoded.
HeadDiff ==
    IF c_edges[1] >= c_source THEN c_edges[1] - c_source ELSE c_source - c_edges[1]

\* C22: the gap head written for source s and first neighbour v has the low 6
\* bits of |v - s| in byte 0, bit 0x40 set iff v < s, bit 0x80 set iff
\* |v - s| >> 6 is not 0, then |v - s| >> 6 in 7-bit little-endian chunks with
\* the top bit set on all but the last, at most 5 bytes in all; first_edge of
\* the decoder consumes exactly these bytes and returns v.
GapHeadLayout ==
    (c_pc \in {"encoded", "decoded"} /\ c_edges # <<>>) =>
        LET high == HeadDiff \div 64
            m == ChunkCount(high)
            f == dec_first_edge(c_source, c_bytes)
        IN  /\ Len(c_bytes) >= 1 + m
            /\ c_bytes[1] % 64 = HeadDiff % 64
            /\ ((c_bytes[1] \div 64) % 2 = 1) <=> (c_edges[1] < c_source)
            /\ (c_bytes[1] >= 128) <=> (high # 0)
            /\ \A i \in 1..m :
                  /\ c_bytes[1 + i] % 128 = (high \div (128 ^ (i - 1))) % 128
                  /\ (c_bytes[1 + i] >= 128) <=> (i < m)
            /\ 1 + m <= 5
            /\ f.some /\ f.ok /\ f.edge = c_edges[1]
            /\ f.rest = SubSeq(c_bytes, m + 2, Len(c_bytes))
            /\ c_pc = "decoded" => c_out # <<>> /\ c_out[1] = c_edges[1]

\* A gap head of 5 bytes for a first neighbour below the source, and bytes
\* after it, have been encoded and decoded.
GapHeadLayoutWitness ==
    /\ c_pc = "decoded"
    /\ c_edges # <<>>
    /\ c_edges[1] < c_source
    /\ ChunkCount(HeadDiff \div 64) = 4
    /\ Len(c_bytes) > 5

\* The byte-width class of a delta below 2^32: the least w with d < 2^(8w).
ClassOf(d) ==
    CHOOSE w \in 1..4 : (w < 4 => d < 256 ^ w) /\ (w > 1 => d >= 256 ^ (w - 1))

\* bytes read as groups: a header byte with width - 1 in bits 0-1 and
\* run_length - 1 in bits 2-7, then run_length deltas of width bytes each,
\* big-endian.  One record per group; a group whose payload is cut short has
\* run 0 and ends the sequence.
RECURSIVE ReadGroups(_)
ReadGroups(bytes) ==
    IF bytes = <<>> THEN <<>>
    ELSE LET width == (Head(bytes) % 4) + 1
             run == ((Head(bytes) \div 4) % 64) + 1
             body == Tail(bytes)
         IN  IF Len(body) < run * width THEN <<[width |-> width, run |-> 0, deltas |-> <<>>]>>
             ELSE <<[width |-> width,
                     run |-> run,
                     deltas |-> [i \in 1..run |->
                                   FromBigEndian(SubSeq(body, (i - 1) * width + 1, i * width))]]>>
                  \o ReadGroups(SubSeq(body, run * width + 1, Len(body)))

\* The deltas of a sequence of groups, in order.
RECURSIVE GroupDeltas(_)
GroupDeltas(gs) == IF gs = <<>> THEN <<>> ELSE Head(gs).deltas \o GroupDeltas(Tail(gs))

\* C23: the bytes after the gap head are groups, each a header byte with
\* width - 1 in bits 0-1 and run_length - 1 in bits 2-7 followed by exactly
\* run_length * width payload bytes, the deltas big-endian; every delta of a
\* group has the width class of the group; run_length is between 1 and 64; and
\* a group is followed by a group of the same width only if it holds 64 deltas;
\* so s+1 .. s+64 is encoded in 1 + 1 + 63 bytes.
GroupLayout ==
    (c_pc \in {"encoded", "decoded"} /\ c_edges # <<>>) =>
        LET head == 1 + ChunkCount(HeadDiff \div 64)
            gs == ReadGroups(SubSeq(c_bytes, head + 1, Len(c_bytes)))
        IN  /\ \A g \in 1..Len(gs) :
                  /\ gs[g].run >= 1
                  /\ gs[g].run <= 64
                  /\ \A i \in 1..gs[g].run : ClassOf(gs[g].deltas[i]) = gs[g].width
                  /\ (g < Len(gs) /\ gs[g + 1].width = gs[g].width) => gs[g].run = 64
            /\ GroupDeltas(gs) = [i \in 1..(Len(c_edges) - 1) |-> c_edges[i + 1] - c_edges[i]]
            /\ c_edges = [i \in 1..64 |-> c_source + i] => Len(c_bytes) = 1 + 1 + 63

\* A list with deltas of two widths, and a list with more than 64 deltas of one
\* width, have been encoded: the first gives two groups of different widths,
\* the second a group of 64 followed by a group of the same width.
GroupLayoutWitness ==
    /\ c_pc \in {"encoded", "decoded"}
    /\ c_edges # <<>>
    /\ LET gs == ReadGroups(SubSeq(c_bytes, 2 + ChunkCount(HeadDiff \div 64), Len(c_bytes)))
       IN  /\ Len(gs) = 2
           /\ \/ gs[1].width # gs[2].width
              \/ gs[1].width = gs[2].width /\ gs[1].run = 64 /\ gs[2].width = 3

----------------------------------------------------------------------------
(* The builders on one edge buffer.                                        *)

Vertices == 0..MaxVertex

AllEdges == Vertices \X Vertices

\* Every multiset of at most MaxBuf edges, as an ascending sequence.
EdgeMultisets ==
    {s \in UNION {[1..n -> AllEdges] : n \in 0..MaxBuf} :
        \A i \in 1..(Len(s) - 1) : EdgeLE(s[i], s[i + 1])}

\* Every order in which a buffer can hold the edges of s.
Orders(s) == {[i \in 1..Len(s) |-> s[p[i]]] : p \in Permutations(1..Len(s))}

\* The fold leaves of a parallel iterator of length n that is halved down to
\* depth `splits`, as chunk lengths.
RECURSIVE Halve(_, _)
Halve(n, splits) ==
    IF splits = 0 \/ n < 2 THEN <<n>>
    ELSE Halve(n \div 2, splits - 1) \o Halve(n - (n \div 2), splits - 1)

\* The chunks of the prefix sum over a buffer whose last source is the largest u.
SumChunks(buf, splits) ==
    Halve((IF buf = <<>> THEN 0 ELSE par_max(buf, 1) + 1) + 1, splits)

\* The chunks of the prefix sum of from_buffer (csr.rs): num_nodes + 2 items.
SumChunksPadded(buf, splits) ==
    Halve(Max(par_max(buf, 1), par_max(buf, 2)) + 2, splits)

\* The distinct targets of u in the input, ascending.
TargetsOf(es, u) == SortSet({es[i][2] : i \in {j \in 1..Len(es) : es[j][1] = u}})

\* 1 + the largest id that occurs as a source or a target; 0 for no edge.
IdCount(es) == IF es = <<>> THEN 0 ELSE Max(par_max(es, 1), par_max(es, 2)) + 1

BuildInit ==
    /\ b_edges \in EdgeMultisets
    /\ b_par1 = CSR_new
    /\ b_par2 = CSR_new
    /\ b_csr = CSR_new
    /\ b_rev = CSR_new
    /\ b_rev2 = CSR_new
    /\ b_run2 = NoRun
    /\ b_pc = "input"
    /\ CodecIdle
    /\ UnionIdle
    /\ ExtIdle

\* CSR::from(edges) of csr/mod.rs, i.e. par::edgelist_to_csr: the first run.
ParRun1 ==
    /\ b_pc = "input"
    /\ \E buf \in Orders(b_edges), right_first \in BOOLEAN, splits \in 0..MaxSplits :
          b_par1' = edgelist_to_csr(buf, right_first, SumChunks(buf, splits))
    /\ b_pc' = "par1"
    /\ UNCHANGED <<b_edges, b_par2, b_csr, b_rev, b_rev2, b_run2>>
    /\ UNCHANGED <<codecVars, unionVars, extVars>>

\* par::edgelist_to_csr again, on any order of the same edges and any schedule.
ParRun2 ==
    /\ b_pc = "par1"
    /\ \E buf \in Orders(b_edges), right_first \in BOOLEAN, splits \in 0..MaxSplits :
          /\ b_par2' = edgelist_to_csr(buf, right_first, SumChunks(buf, splits))
          /\ b_run2' = [buf |-> buf, right_first |-> right_first, splits |-> splits]
    /\ b_pc' = "par2"
    /\ UNCHANGED <<b_edges, b_par1, b_csr, b_rev, b_rev2>>
    /\ UNCHANGED <<codecVars, unionVars, extVars>>

\* CSR::from(vect) of csr.rs, i.e. CSR::from_buffer.
FromBuffer ==
    /\ b_pc = "par1"
    /\ \E buf \in Orders(b_edges), splits \in 0..MaxSplits :
          b_csr' = from_buffer(buf, splits, SumChunksPadded(buf, splits))
    /\ b_pc' = "csr"
    /\ UNCHANGED <<b_edges, b_par1, b_par2, b_rev, b_rev2, b_run2>>
    /\ UNCHANGED <<codecVars, unionVars, extVars>>

\* The edges of csr flipped: csr.edges().map(|e| Edge(e.1, e.0)).
Flipped(csr) == LET es == edges(csr) IN [i \in 1..Len(es) |-> <<es[i][2], es[i][1]>>]

\* CSR::from_edges_with_capacity(csr.size(), flipped edges) on b_csr, as
\* by_access_probabilites builds `incoming`; it panics when edges() does.
Reverse ==
    /\ b_pc = "csr"
    /\ IF edges(b_csr) = CorruptEdges
       THEN b_pc' = "panicked" /\ UNCHANGED b_rev
       ELSE /\ \E splits \in 0..MaxSplits :
                  b_rev' = from_buffer(Flipped(b_csr), splits,
                                       SumChunksPadded(Flipped(b_csr), splits))
            /\ b_pc' = "rev"
    /\ UNCHANGED <<b_edges, b_par1, b_par2, b_csr, b_rev2, b_run2>>
    /\ UNCHANGED <<codecVars, unionVars, extVars>>

\* The same on b_rev.
ReverseAgain ==
    /\ b_pc = "rev"
    /\ IF edges(b_rev) = CorruptEdges
       THEN b_pc' = "panicked" /\ UNCHANGED b_rev2
       ELSE /\ \E splits \in 0..MaxSplits :
                  b_rev2' = from_buffer(Flipped(b_rev), splits,
                                        SumChunksPadded(Flipped(b_rev), splits))
            /\ b_pc' = "rev2"
    /\ UNCHANGED <<b_edges, b_par1, b_par2, b_csr, b_rev, b_run2>>
    /\ UNCHANGED <<codecVars, unionVars, extVars>>

ParNext == ParRun1 \/ ParRun2

\* The builder of csr/mod.rs run twice on one multiset of edges.
SpecPar == BuildInit /\ [][ParNext]_vars

BuildNext == ParRun1 \/ FromBuffer \/ Reverse \/ ReverseAgain

\* Both builders on one multiset of edges, then the reversal of the csr.rs CSR.
SpecBuild == BuildInit /\ [][BuildNext]_vars

\* C2: the offsets of a CSR built by CSR::from_buffer (csr.rs) start at 0,
\* never decrease and end at the length of the blob.
OffsetsWellFormed ==
    (b_pc \in {"csr", "rev", "rev2", "panicked"} /\ b_csr.vertices # <<>>) =>
        /\ b_csr.vertices[1] = 0
        /\ \A i \in 1..(Len(b_csr.vertices) - 1) : b_csr.vertices[i] <= b_csr.vertices[i + 1]
        /\ Last(b_csr.vertices) = Len(b_csr.edges)

\* C4: the CSR built by edgelist_to_csr lists, for every vertex below its
\* order, the distinct targets of that vertex in ascending order, and counts
\* the distinct edges of the buffer.
ParBuildsDistinctSorted ==
    b_pc \in {"par1", "par2"} =>
        /\ \A u \in 0..(order(b_par1) - 1) : adj(b_par1, u) = TargetsOf(b_edges, u)
        /\ size(b_par1) = Cardinality(Range(b_edges))

\* C4 witness: a buffer that holds an edge twice and a source with two distinct
\* targets has been built.
ParBuildsDistinctSortedWitness ==
    /\ b_pc = "par1"
    /\ Cardinality(Range(b_edges)) < Len(b_edges)
    /\ \E u \in Vertices : Len(adj(b_par1, u)) >= 2

\* C5: two runs of edgelist_to_csr on the same multiset of edges return the
\* same offsets, edge count and blob, whatever the input orders and schedules.
ParDeterministic ==
    b_pc = "par2" => b_par1 = b_par2

\* C5 witness: the second run was given a buffer that is not in ascending
\* order, the right halves first and a split prefix sum, on several sources.
ParDeterministicWitness ==
    /\ b_pc = "par2"
    /\ b_run2.buf # b_edges
    /\ b_run2.right_first
    /\ b_run2.splits > 0
    /\ Len(b_par2.edges) >= 2
    /\ order(b_par2) >= 2

\* The distinct sources of the edges, ascending.
SourcesOf(es) == SortSet({es[i][1] : i \in 1..Len(es)})

\* The encodings of the lists of the sources us, one after the other.
RECURSIVE PerSourceBlob(_, _)
PerSourceBlob(es, us) ==
    IF us = <<>> THEN <<>>
    ELSE encode(<<>>, Head(us), TargetsOf(es, Head(us))) \o PerSourceBlob(es, Tail(us))

\* The sum of the nnz values of a list of (u, nnz) entries.
RECURSIVE NnzTotal(_)
NnzTotal(nodes) == IF nodes = <<>> THEN 0 ELSE Head(nodes)[2] + NnzTotal(Tail(nodes))

\* C25: on the sorted buffer and under either order of the forked halves,
\* rec_edgelist_to_csr returns one (u, nnz) entry per distinct source, in
\* strictly ascending u, with nnz the byte length of the encoding of the list
\* of u alone, and a blob that is the per-source encodings in that order, so
\* that the nnz values sum to the length of the blob; the blob of the CSR that
\* was built is that blob.
RecReturnsPerSource ==
    b_pc \in {"par1", "par2"} =>
        \A right_first \in BOOLEAN :
            LET sorted == par_sort_unstable(b_edges)
                rec == rec_edgelist_to_csr(sorted, right_first)
                us == SourcesOf(b_edges)
            IN  /\ Len(rec.nodes) = Len(us)
                /\ \A k \in 1..Len(us) :
                      /\ rec.nodes[k][1] = us[k]
                      /\ rec.nodes[k][2] = Len(encode(<<>>, us[k], TargetsOf(b_edges, us[k])))
                /\ \A k \in 1..(Len(rec.nodes) - 1) : rec.nodes[k][1] < rec.nodes[k + 1][1]
                /\ rec.blob = PerSourceBlob(b_edges, us)
                /\ NnzTotal(rec.nodes) = Len(rec.blob)
                /\ b_par1.edges = rec.blob

\* C25 witness: a buffer with two sources, one of them with two distinct
\* targets, has been built.
RecReturnsPerSourceWitness ==
    /\ b_pc = "par1"
    /\ Len(SourcesOf(b_edges)) >= 2
    /\ \E u \in Vertices : Len(TargetsOf(b_edges, u)) >= 2

\* C6: the order of the CSR of either builder is 1 + the largest id that occurs
\* as a source or a target (0 for the empty buffer), and a vertex below the
\* order without outgoing edge has no neighbour.
OrderCoversAllIds ==
    /\ b_pc # "input" =>
          /\ order(b_par1) = IdCount(b_edges)
          /\ \A u \in 0..(order(b_par1) - 1) :
                 TargetsOf(b_edges, u) = <<>> => adj(b_par1, u) = <<>>
    /\ b_pc \in {"csr", "rev", "rev2", "panicked"} =>
          /\ order(b_csr) = IdCount(b_edges)
          /\ \A u \in 0..(order(b_csr) - 1) :
                 TargetsOf(b_edges, u) = <<>> => neighbors(b_csr, u) = <<>>

\* C10: the CSR of the flipped edges of the CSR of the flipped edges of G has
\* the order, the edge count and the neighbour lists of G.
ReverseInvolution ==
    b_pc \in {"rev2", "panicked"} =>
        /\ b_pc = "rev2"
        /\ order(b_rev2) = order(b_csr)
        /\ size(b_rev2) = size(b_csr)
        /\ \A u \in 0..(order(b_csr) - 1) : neighbors(b_rev2, u) = neighbors(b_csr, u)

----------------------------------------------------------------------------
(* Unions of CSRs built by csr/mod.rs.  a and b start as CSR::new(); each  *)
(* may be replaced once by a built CSR, then one union runs on them.       *)

UnionEdges == (0..MaxUnionVertex) \X (0..MaxUnionVertex)

\* The buffers a union operand is built from, in every order.
ChunkBuffers == UNION {[1..n -> UnionEdges] : n \in 0..MaxChunk}

\* CSR::from(buf) of csr/mod.rs for the buffers of S under every schedule.
BuiltFrom(S) ==
    {edgelist_to_csr(buf, right_first, SumChunks(buf, splits)) :
        buf \in S, right_first \in BOOLEAN, splits \in 0..MaxSplits}

BuiltCSRs == BuiltFrom(ChunkBuffers)

BuiltChunks == BuiltFrom(ChunkBuffers \ {<<>>})

UnionInit ==
    /\ u_g = CSR_new
    /\ u_h = CSR_new
    /\ u_old = CSR_new
    /\ u_res = CSR_new
    /\ u_op = "new"
    /\ CodecIdle
    /\ BuildIdle
    /\ ExtIdle

\* let a = CSR::from(buf)
FromG ==
    /\ u_op = "new"
    /\ \E csr \in BuiltCSRs : u_g' = csr
    /\ u_op' = "fromG"
    /\ UNCHANGED <<u_h, u_old, u_res>>
    /\ UNCHANGED <<codecVars, buildVars, extVars>>

\* let b = CSR::from(buf)
FromH ==
    /\ u_op \in {"new", "fromG"}
    /\ \E csr \in BuiltCSRs : u_h' = csr
    /\ u_op' = "fromH"
    /\ UNCHANGED <<u_g, u_old, u_res>>
    /\ UNCHANGED <<codecVars, buildVars, extVars>>

\* let k = &a | &b
BitOrRef ==
    /\ u_op \in {"new", "fromG", "fromH"}
    /\ u_res' = bitor_ref(u_g, u_h)
    /\ u_old' = u_g
    /\ u_op' = "ref"
    /\ UNCHANGED <<u_g, u_h>>
    /\ UNCHANGED <<codecVars, buildVars, extVars>>

\* let k = a | b
BitOrVal ==
    /\ u_op \in {"new", "fromG", "fromH"}
    /\ u_res' = bitor(u_g, u_h)
    /\ u_old' = u_g
    /\ u_op' = "val"
    /\ UNCHANGED <<u_g, u_h>>
    /\ UNCHANGED <<codecVars, buildVars, extVars>>

\* a |= b
BitOrAssign ==
    /\ u_op \in {"new", "fromG", "fromH"}
    /\ u_g' = bitor_assign(u_g, u_h)
    /\ u_res' = u_g'
    /\ u_old' = u_g
    /\ u_op' = "assign"
    /\ UNCHANGED u_h
    /\ UNCHANGED <<codecVars, buildVars, extVars>>

\* One pass of the chunk loop of CSRBuilder::build on a chunk of at least one
\* edge: csr |= pool.install(|| CSR::from_buffer(&mut buf[..])), with csr = a
\* being CSR::new() (the first pass) or the CSR of the first chunk (the second).
BuildChunk ==
    /\ u_op \in {"new", "fromG"}
    /\ u_g = CSR_new \/ u_g \in BuiltChunks
    /\ \E csr \in BuiltChunks :
          /\ u_h' = csr
          /\ u_g' = bitor_assign(u_g, csr)
    /\ u_res' = u_g'
    /\ u_old' = u_g
    /\ u_op' = "chunk"
    /\ UNCHANGED <<codecVars, buildVars, extVars>>

UnionNext ==
    FromG \/ FromH \/ BitOrRef \/ BitOrVal \/ BitOrAssign \/ BuildChunk

SpecUnion == UnionInit /\ [][UnionNext]_vars

\* The number of neighbours adj yields over all vertices of a CSR.
RECURSIVE CountAdj(_, _)
CountAdj(csr, u) ==
    IF u >= order(csr) THEN 0 ELSE Len(adj(csr, u)) + CountAdj(csr, u + 1)

\* The ascending list of the set union of two neighbour lists.
SetUnionList(xs, ys) == SortSet(Range(xs) \cup Range(ys))

\* C3: in every CSR reached by builds and unions, size() is the number of
\* neighbours adj yields over all vertices.
SizeCountsEdges ==
    /\ size(u_g) = CountAdj(u_g, 0)
    /\ size(u_h) = CountAdj(u_h, 0)
    /\ size(u_res) = CountAdj(u_res, 0)

\* C7: every neighbour list of &G | &H is the ascending set union of the lists
\* of G and H, and the order of the result is the larger of the two orders.
UnionMergesAdj ==
    u_op = "ref" =>
        /\ order(u_res) = Max(order(u_g), order(u_h))
        /\ \A u \in 0..order(u_res) :
              adj(u_res, u) = SetUnionList(adj(u_g, u), adj(u_h, u))

\* C7 witness: a union in which some vertex has a neighbour in both operands
\* and a neighbour in only one of them, and some vertex exists in one operand only.
UnionMergesAdjWitness ==
    /\ u_op = "ref"
    /\ order(u_g) # order(u_h)
    /\ \E u \in 0..MaxUnionVertex :
          /\ Range(adj(u_g, u)) \cap Range(adj(u_h, u)) # {}
          /\ Range(adj(u_g, u)) # Range(adj(u_h, u))

\* C8: &G | &G has the offsets, the blob and the edge count of G, for every G
\* the builder produced.
UnionIdempotent ==
    (u_op = "ref" /\ u_g \in BuiltCSRs /\ u_g = u_h) => u_res = u_g

\* C8 witness: a built G with two sources and a vertex without outgoing edge
\* has been united with itself.
UnionIdempotentWitness ==
    /\ u_op = "ref"
    /\ u_g \in BuiltCSRs
    /\ u_g = u_h
    /\ size(u_g) >= 2
    /\ \E u \in 0..(order(u_g) - 1) : adj(u_g, u) = <<>>

\* C9: a union with CSR::new() as either operand, in each of the three forms,
\* yields the offsets, the blob and the edge count of the other operand.
NewIsUnit ==
    u_op \in {"ref", "val", "assign"} =>
        /\ u_h = CSR_new => u_res = u_old
        /\ u_old = CSR_new => u_res = u_h

----------------------------------------------------------------------------
(* csr/par.rs, reorder.rs: atomic_add_f64 called by several threads on one  *)
(* cell.  The f64 in the cell is an integer here, so that addition is exact.*)

Threads == 1..MaxThreads

Addends == {1, 2}

RECURSIVE SumOver(_, _)
SumOver(f, S) ==
    IF S = {} THEN 0
    ELSE LET t == CHOOSE t \in S : TRUE IN f[t] + SumOver(f, S \ {t})

\* compare_exchange_weak that stores whatever the cell holds.
compare_exchange_matches_always(current, old) == TRUE

\* compare_exchange_weak(old, new, ..) can succeed only if the cell holds old.
compare_exchange_matches(current, old) == current = old

AtomInit ==
    /\ CodecIdle
    /\ BuildIdle
    /\ UnionIdle
    /\ IngestIdle
    /\ SampIdle
    /\ ReordIdle
    /\ ProbIdle
    /\ LateIdle
    /\ x_init \in {0, 5}
    /\ x_cell = x_init
    /\ x_y \in [Threads -> Addends]
    /\ x_old = [t \in Threads |-> 0]
    /\ x_pc = [t \in Threads |-> "load"]
    /\ x_fails = 0

\* let mut old = x.load(Ordering::Relaxed);
AtomLoad(t) ==
    /\ x_pc[t] = "load"
    /\ x_old' = [x_old EXCEPT ![t] = x_cell]
    /\ x_pc' = [x_pc EXCEPT ![t] = "loop"]
    /\ UNCHANGED <<x_cell, x_init, x_y, x_fails>>
    /\ UNCHANGED <<codecVars, buildVars, unionVars, ingestVars, sampVars, reordVars, probVars, lateVars>>

\* new = y + old; compare_exchange_weak(old, new) returns Ok(_) => break
AtomExchangeOk(t) ==
    /\ x_pc[t] = "loop"
    /\ compare_exchange_matches(x_cell, x_old[t])
    /\ x_cell' = x_y[t] + x_old[t]
    /\ x_pc' = [x_pc EXCEPT ![t] = "done"]
    /\ UNCHANGED <<x_init, x_y, x_old, x_fails>>
    /\ UNCHANGED <<codecVars, buildVars, unionVars, ingestVars, sampVars, reordVars, probVars, lateVars>>

\* compare_exchange_weak returns Err(prev) => old = prev: the cell holds another
\* value, or the exchange fails spuriously; prev is the value the cell holds.
AtomExchangeErr(t) ==
    /\ x_pc[t] = "loop"
    /\ x_fails < MaxFails
    /\ x_old' = [x_old EXCEPT ![t] = x_cell]
    /\ x_fails' = x_fails + 1
    /\ UNCHANGED <<x_cell, x_init, x_y, x_pc>>
    /\ UNCHANGED <<codecVars, buildVars, unionVars, ingestVars, sampVars, reordVars, probVars, lateVars>>

AtomNext ==
    \E t \in Threads : AtomLoad(t) \/ AtomExchangeOk(t) \/ AtomExchangeErr(t)

SpecAtom == AtomInit /\ [][AtomNext]_vars

Returned == {t \in DOMAIN x_pc : x_pc[t] = "done"}

\* C19: every addend of a returned call is in the cell exactly once: the cell
\* holds the initial value plus the addends of the calls that have returned,
\* hence the initial value plus all addends once all calls have returned.
AtomicAddAppliesOnce ==
    x_cell = x_init + SumOver(x_y, Returned)

AtomicAddAppliesOnceWitness ==
    /\ x_pc # <<>>
    /\ \A t \in Threads : x_pc[t] = "done"
    /\ x_fails = MaxFails
    /\ x_cell = x_init + SumOver(x_y, Threads)

----------------------------------------------------------------------------
(* csr.rs try_from_edges / try_from_edges_with_capacity and csr/mod.rs      *)
(* CSRBuilder::build on an iterator of Result<Edge, E>.                     *)

OkItem(e) == [ok |-> TRUE, edge |-> e, err |-> ""]

ErrItem(x) == [ok |-> FALSE, edge |-> <<0, 0>>, err |-> x]

IngestItems == {OkItem(e) : e \in {<<0, 0>>, <<0, 1>>, <<1, 0>>}} \cup {ErrItem("e1"), ErrItem("e2")}

IngestInputs == UNION {[1..n -> IngestItems] : n \in 0..MaxItems}

\* yield_n that drops an Err item and goes on.
RECURSIVE yield_n_skip(_, _, _, _)
yield_n_skip(xs, pos, n, buf) ==
    IF n = 0 \/ pos = Len(xs) THEN [pos |-> pos, buf |-> buf, err |-> ""]
    ELSE IF xs[pos + 1].ok
         THEN yield_n_skip(xs, pos + 1, n - 1, Append(buf, xs[pos + 1].edge))
         ELSE yield_n_skip(xs, pos + 1, n - 1, buf)

\* yield_n(xs, n, buf) of build, xs having yielded pos items already: up to n
\* items pushed to buf; the first Err ends it and is returned.
RECURSIVE yield_n(_, _, _, _)
yield_n(xs, pos, n, buf) ==
    IF n = 0 \/ pos = Len(xs) THEN [pos |-> pos, buf |-> buf, err |-> ""]
    ELSE IF xs[pos + 1].ok
         THEN yield_n(xs, pos + 1, n - 1, Append(buf, xs[pos + 1].edge))
         ELSE [pos |-> pos + 1, buf |-> buf, err |-> xs[pos + 1].err]

IngestInit ==
    /\ CodecIdle
    /\ BuildIdle
    /\ UnionIdle
    /\ AtomIdle
    /\ SampIdle
    /\ ReordIdle
    /\ ProbIdle
    /\ LateIdle
    /\ i_fn \in {"try_from_edges", "try_from_edges_with_capacity", "build"}
    /\ i_items \in IngestInputs
    /\ i_n \in IF i_fn = "build" THEN 1..MaxEdgesPerChunk ELSE {0}
    /\ i_pos = 0
    /\ i_buf = <<>>
    /\ i_csr = CSR_new
    /\ i_fed = <<>>
    /\ i_res = NoResult
    /\ i_pc = "loop"

IngestFrame == UNCHANGED <<codecVars, buildVars, unionVars, atomVars, sampVars, reordVars, probVars, lateVars>>

\* One iteration of `for edge in edges` of try_from_edges(_with_capacity).
TryPull ==
    /\ i_pc = "loop"
    /\ i_fn # "build"
    /\ i_pos < Len(i_items)
    /\ i_pos' = i_pos + 1
    /\ IF i_items[i_pos + 1].ok
       THEN /\ i_buf' = Append(i_buf, i_items[i_pos + 1].edge)
            /\ UNCHANGED <<i_res, i_pc>>
       ELSE /\ i_res' = [kind |-> "err", csr |-> CSR_new, err |-> i_items[i_pos + 1].err]
            /\ i_pc' = "done"
            /\ UNCHANGED i_buf
    /\ UNCHANGED <<i_fn, i_items, i_n, i_csr, i_fed>>
    /\ IngestFrame

\* The iterator is exhausted: Ok(Self::from_buffer(&mut buf[..])).
TryFinish ==
    /\ i_pc = "loop"
    /\ i_fn # "build"
    /\ i_pos = Len(i_items)
    /\ \E splits \in 0..MaxSplits :
          i_res' = [kind |-> "ok", err |-> "",
                    csr |-> from_buffer(i_buf, splits, SumChunksPadded(i_buf, splits))]
    /\ i_fed' = i_fed \o i_buf
    /\ i_pc' = "done"
    /\ UNCHANGED <<i_fn, i_items, i_n, i_pos, i_buf, i_csr>>
    /\ IngestFrame

\* One pass of `while edges.peek().is_some()` of build: yield_n, then either
\* return Err or csr |= CSR::from_buffer(&mut buf[..]); buf.clear().
BuildPass ==
    /\ i_pc = "loop"
    /\ i_fn = "build"
    /\ i_pos < Len(i_items)
    /\ LET y == yield_n(i_items, i_pos, i_n, i_buf)
       IN  /\ i_pos' = y.pos
           /\ IF y.err # ""
              THEN /\ i_res' = [kind |-> "err", csr |-> CSR_new, err |-> y.err]
                   /\ i_pc' = "done"
                   /\ i_buf' = y.buf
                   /\ UNCHANGED <<i_csr, i_fed>>
              ELSE /\ \E right_first \in BOOLEAN, splits \in 0..MaxSplits :
                         i_csr' = bitor_assign(i_csr,
                                     edgelist_to_csr(y.buf, right_first, SumChunks(y.buf, splits)))
                   /\ i_fed' = i_fed \o y.buf
                   /\ i_buf' = <<>>
                   /\ UNCHANGED <<i_res, i_pc>>
    /\ UNCHANGED <<i_fn, i_items, i_n>>
    /\ IngestFrame

\* peek() is None: Ok(csr).
BuildReturn ==
    /\ i_pc = "loop"
    /\ i_fn = "build"
    /\ i_pos = Len(i_items)
    /\ i_res' = [kind |-> "ok", csr |-> i_csr, err |-> ""]
    /\ i_pc' = "done"
    /\ UNCHANGED <<i_fn, i_items, i_n, i_pos, i_buf, i_csr, i_fed>>
    /\ IngestFrame

IngestNext == TryPull \/ TryFinish \/ BuildPass \/ BuildReturn

SpecIngest == IngestInit /\ [][IngestNext]_vars

ErrPositions == {j \in 1..Len(i_items) : ~i_items[j].ok}

FirstErr == CHOOSE j \in ErrPositions : \A k \in ErrPositions : j <= k

OkEdges(items) == [j \in 1..Len(items) |-> items[j].edge]

\* C20: no item after the first Err is ever pulled; a finished call returns Err
\* with the first Err item and no CSR, or, when no item is an Err, Ok with the
\* CSR built from all items in order (for build, its neighbour lists are those
\* of all items).
IngestShortCircuits ==
    /\ ErrPositions # {} => i_pos <= FirstErr
    /\ i_pc = "done" =>
          IF ErrPositions # {}
          THEN /\ i_res = [kind |-> "err", csr |-> CSR_new, err |-> i_items[FirstErr].err]
               /\ i_pos = FirstErr
          ELSE /\ i_res.kind = "ok"
               /\ i_pos = Len(i_items)
               /\ i_fed = OkEdges(i_items)
               /\ i_fn = "build" =>
                     \A u \in 0..1 : adj(i_res.csr, u) = TargetsOf(i_fed, u)

IngestShortCircuitsWitness ==
    /\ i_pc = "done"
    /\ i_fn = "build"
    /\ i_n = 1
    /\ Len(i_items) = 3
    /\ FirstErr = 3
    /\ i_res.kind = "err"
    /\ i_res.err = "e2"
    /\ i_fed # <<>>

\* CSR::from(edges) of csr/mod.rs on the whole edge sequence.
OneShot(es) == edgelist_to_csr(es, FALSE, SumChunks(es, 0))

\* C21: for every edge sequence without Err item and every chunk size of at
\* least 1, CSRBuilder::build returns a CSR with the same offsets and blob as
\* the CSR built from the whole sequence at once.
ChunkedEqualsOneShot ==
    (i_pc = "done" /\ i_fn = "build" /\ i_res.kind = "ok") =>
        /\ i_res.csr.vertices = OneShot(OkEdges(i_items)).vertices
        /\ i_res.csr.edges = OneShot(OkEdges(i_items)).edges

\* C21 for the sequences that hold an edge.
ChunkedEqualsOneShotNonEmpty ==
    (i_pc = "done" /\ i_fn = "build" /\ i_res.kind = "ok" /\ i_items # <<>>) =>
        /\ i_res.csr.vertices = OneShot(OkEdges(i_items)).vertices
        /\ i_res.csr.edges = OneShot(OkEdges(i_items)).edges

\* Three edges on two sources, with a repeated edge or a source in two chunks,
\* were ingested in chunks of one edge.
ChunkedEqualsOneShotWitness ==
    /\ i_pc = "done"
    /\ i_fn = "build"
    /\ i_res.kind = "ok"
    /\ i_n = 1
    /\ Len(i_items) = 3
    /\ Len(SourcesOf(OkEdges(i_items))) = 2
    /\ i_items[1].edge[1] = i_items[3].edge[1]

----------------------------------------------------------------------------
(* graph_sage_sampler.rs and the reservoir_sample of iter.rs.               *)

\* The loop of reservoir_sample: i = floor(ln(U) / ln(1 - w)) + 1 is any
\* integer >= 1 and self.nth(i) skips i items of the rest and takes the next;
\* it replaces buf[indexing_range.sample(rng)], any slot; None ends the loop.
RECURSIVE ReservoirLoop(_, _, _)
ReservoirLoop(buf, rest, k) ==
    {buf} \cup UNION {ReservoirLoop([buf EXCEPT ![j] = rest[i + 1]],
                                    SubSeq(rest, i + 2, Len(rest)), k) :
                        i \in 1..(Len(rest) - 1), j \in 1..k}

\* reservoir_sample(rng, k) on the items xs: every buf it can return; Corrupt
\* for the panic of Uniform::new(0, k) with k = 0 (low >= high).
reservoir_sample(xs, k) ==
    IF Len(xs) < k THEN {xs}
    ELSE IF k = 0 THEN {Corrupt}
    ELSE ReservoirLoop(SubSeq(xs, 1, k), SubSeq(xs, k + 1, Len(xs)), k)

\* The map closure of sample_kernel on each input: every family of draws.
RECURSIVE KernelDraws(_, _, _)
KernelDraws(csr, inputs, k) ==
    IF inputs = <<>> THEN {<<>>}
    ELSE LET ns == neighbors(csr, Head(inputs))
             first == IF ns = Corrupt THEN {Corrupt} ELSE reservoir_sample(ns, k)
         IN  {<<ns1>> \o more : ns1 \in first, more \in KernelDraws(csr, Tail(inputs), k)}

\* vec::concat
concat(a, b) == a \o b

\* The reduce of sample_kernel over the mapped items, the parallel iterator
\* being halved down to depth `splits`.
RECURSIVE kernel_reduce(_, _)
kernel_reduce(items, splits) ==
    IF items = <<>> THEN <<<<>>, <<>>>>
    ELSE IF Len(items) = 1 THEN items[1]
    ELSE LET h == IF splits = 0 THEN Len(items) - 1 ELSE Len(items) \div 2
             a == kernel_reduce(SubSeq(items, 1, h), Max(splits - 1, 0))
             b == kernel_reduce(SubSeq(items, h + 1, Len(items)), Max(splits - 1, 0))
         IN  <<concat(a[1], b[1]), concat(a[2], b[2])>>

\* sample_kernel for one family of draws: (outputs, counts), or a panic.
sample_kernel(draws, splits) ==
    IF \E i \in 1..Len(draws) : draws[i] = Corrupt
    THEN [panic |-> TRUE, out |-> <<>>, cnt |-> <<>>]
    ELSE LET r == kernel_reduce([i \in 1..Len(draws) |-> <<draws[i], <<Len(draws[i])>>>>],
                                splits)
         IN  [panic |-> FALSE, out |-> r[1], cnt |-> r[2]]

\* The first loop of reindex: out_map.insert(input, n_id) for every input, a
\* later insert of the same key replacing the earlier value.
InputMap(inputs) ==
    [v \in Range(inputs) |->
        (CHOOSE i \in 1..Len(inputs) :
            inputs[i] = v /\ \A j \in (i + 1)..Len(inputs) : inputs[j] # v) - 1]

\* The second loop of reindex without the contains_key test.
RECURSIVE AssignOutputs_nocheck(_, _, _)
AssignOutputs_nocheck(st, outputs, i) ==
    IF i > Len(outputs) THEN st
    ELSE AssignOutputs_nocheck(
            [out_map  |-> [v \in DOMAIN st.out_map \cup {outputs[i]} |->
                              IF v = outputs[i] THEN st.n_id ELSE st.out_map[v]],
             n_id     |-> st.n_id + 1,
             frontier |-> Append(st.frontier, outputs[i])],
            outputs, i + 1)

\* The second loop of reindex on the outputs from position i on.
RECURSIVE AssignOutputs(_, _, _)
AssignOutputs(st, outputs, i) ==
    IF i > Len(outputs) THEN st
    ELSE IF outputs[i] \in DOMAIN st.out_map THEN AssignOutputs(st, outputs, i + 1)
    ELSE AssignOutputs([out_map  |-> [v \in DOMAIN st.out_map \cup {outputs[i]} |->
                                         IF v = outputs[i] THEN st.n_id ELSE st.out_map[v]],
                        n_id     |-> st.n_id + 1,
                        frontier |-> Append(st.frontier, outputs[i])],
                       outputs, i + 1)

\* The third loop of reindex from the i-th input on: output_counts is indexed
\* by the vertex id `input` and outputs by cnt; an index out of bounds panics.
RECURSIVE EmitPairs(_, _, _, _, _, _)
EmitPairs(inputs, i, outputs, output_counts, out_map, acc) ==
    IF i > Len(inputs) THEN acc
    ELSE IF inputs[i] >= Len(output_counts) THEN [acc EXCEPT !.panic = TRUE]
    ELSE LET n == output_counts[inputs[i] + 1]
         IN  IF acc.cnt + n > Len(outputs) THEN [acc EXCEPT !.panic = TRUE]
             ELSE EmitPairs(inputs, i + 1, outputs, output_counts, out_map,
                    [panic   |-> FALSE,
                     cnt     |-> acc.cnt + n,
                     row_idx |-> acc.row_idx \o [j \in 1..n |-> out_map[inputs[i]]],
                     col_idx |-> acc.col_idx \o
                                   [j \in 1..n |-> out_map[outputs[acc.cnt + j]]]])

\* GraphSageSampler::reindex: (frontier, row_idx, col_idx), or a panic.
reindex(inputs, outputs, output_counts) ==
    LET st == AssignOutputs([out_map |-> InputMap(inputs), n_id |-> Len(inputs),
                             frontier |-> inputs], outputs, 1)
        pairs == EmitPairs(inputs, 1, outputs, output_counts, st.out_map,
                           [panic |-> FALSE, cnt |-> 0, row_idx |-> <<>>, col_idx |-> <<>>])
    IN  [panic |-> pairs.panic, frontier |-> st.frontier, out_map |-> st.out_map,
         row_idx |-> pairs.row_idx, col_idx |-> pairs.col_idx]

\* The graphs the sampler is run on.
SampleGraphs ==
    { <<<<0, 1>>, <<0, 2>>, <<0, 3>>>>,
      <<<<0, 1>>, <<1, 2>>, <<2, 0>>>>,
      <<<<1, 0>>, <<1, 2>>, <<2, 2>>>> }

\* Offsets that start at 0, never decrease and end at the length of the blob.
WellFormedCSR(csr) ==
    /\ Len(csr.vertices) >= 1
    /\ csr.vertices[1] = 0
    /\ \A i \in 1..(Len(csr.vertices) - 1) : csr.vertices[i] <= csr.vertices[i + 1]
    /\ Last(csr.vertices) = Len(csr.edges)

\* CSR::from (csr.rs) of those graphs, for the schedules that leave the CSR well formed.
SampleCSRs ==
    {c \in {from_buffer(buf, splits, SumChunksPadded(buf, splits)) :
                buf \in SampleGraphs, splits \in 0..MaxSplits} : WellFormedCSR(c)}

SeqsUpTo(S, n) == UNION {[1..m -> S] : m \in 0..n}

\* sample without adjs.reverse().
reverse_vec_none(v) == v

\* adjs.reverse()
RECURSIVE reverse_vec(_)
reverse_vec(v) == IF v = <<>> THEN <<>> ELSE Append(reverse_vec(Tail(v)), Head(v))

SampleInit ==
    /\ CodecIdle
    /\ BuildIdle
    /\ UnionIdle
    /\ AtomIdle
    /\ IngestIdle
    /\ ReordIdle
    /\ ProbIdle
    /\ LateIdle
    /\ s_csr \in SampleCSRs
    /\ s_sizes \in SeqsUpTo(0..MaxFanOut, MaxLayers)
    /\ s_seeds \in SeqsUpTo(0..(order(s_csr) - 1), MaxSeeds)
    /\ s_nodes = s_seeds
    /\ s_adjs = <<>>
    /\ s_layers = <<>>
    /\ s_pc = "loop"

SampleFrame == UNCHANGED <<codecVars, buildVars, unionVars, atomVars, ingestVars, reordVars, probVars, lateVars>>

\* One pass of `for &k in self.sizes.clone()` of sample: sample_kernel, reindex,
\* adjs.push(Adj { src, dst, size }), nodes = frontier.
SampleLayer ==
    /\ s_pc = "loop"
    /\ Len(s_layers) < Len(s_sizes)
    /\ LET k == s_sizes[Len(s_layers) + 1]
       IN  \E draws \in KernelDraws(s_csr, s_nodes, k), splits \in 0..MaxSplits :
             LET kern == sample_kernel(draws, splits)
                 r == IF kern.panic
                      THEN [panic |-> TRUE, frontier |-> <<>>, out_map |-> <<>>,
                            row_idx |-> <<>>, col_idx |-> <<>>]
                      ELSE reindex(s_nodes, kern.out, kern.cnt)
             IN  /\ s_layers' = Append(s_layers,
                        [inputs |-> s_nodes, k |-> k, kernel_panic |-> kern.panic,
                         out |-> kern.out, cnt |-> kern.cnt, panic |-> r.panic,
                         frontier |-> r.frontier, out_map |-> r.out_map,
                         row_idx |-> r.row_idx, col_idx |-> r.col_idx])
                 /\ IF r.panic
                    THEN s_pc' = "panicked" /\ UNCHANGED <<s_nodes, s_adjs>>
                    ELSE /\ s_adjs' = Append(s_adjs,
                                [src |-> r.row_idx, dst |-> r.col_idx,
                                 size |-> <<Len(r.frontier), Len(s_nodes)>>])
                         /\ s_nodes' = r.frontier
                         /\ UNCHANGED s_pc
    /\ UNCHANGED <<s_csr, s_sizes, s_seeds>>
    /\ SampleFrame

\* adjs.reverse(); (nodes, batch_size, adjs)
SampleReturn ==
    /\ s_pc = "loop"
    /\ Len(s_layers) = Len(s_sizes)
    /\ s_adjs' = reverse_vec(s_adjs)
    /\ s_pc' = "returned"
    /\ UNCHANGED <<s_csr, s_sizes, s_seeds, s_nodes, s_layers>>
    /\ SampleFrame

SampleNext == SampleLayer \/ SampleReturn

SpecSample == SampleInit /\ [][SampleNext]_vars

\* The local id of the input each output was drawn for: position i - 1 of the
\* input list, cnt[i] times, for i = 1, 2, ...
RECURSIVE OwnerIds(_, _)
OwnerIds(cnt, i) ==
    IF i > Len(cnt) THEN <<>>
    ELSE [j \in 1..cnt[i] |-> i - 1] \o OwnerIds(cnt, i + 1)

\* The items of `out` that are neither inputs nor seen before, in first-seen order.
RECURSIVE NewInOrder(_, _)
NewInOrder(out, seen) ==
    IF out = <<>> THEN <<>>
    ELSE IF Head(out) \in seen THEN NewInOrder(Tail(out), seen)
    ELSE <<Head(out)>> \o NewInOrder(Tail(out), seen \cup {Head(out)})

NoRepeat(q) == \A i, j \in 1..Len(q) : q[i] = q[j] => i = j

\* The passes of the loop of sample in which reindex was called.
Reindexed == {l \in 1..Len(s_layers) : ~s_layers[l].kernel_panic}

\* C12: sample is total: in no pass does reindex index output_counts or
\* outputs out of bounds or look up a missing key, so a call whose kernels
\* returned returns normally.
SampleReindexTotal ==
    \A l \in Reindexed : ~s_layers[l].panic

\* C13: in every Adj of a returned sample, dst[j] is the local id of the input
\* the j-th output was drawn for, src[j] the local id of that output, the output
\* is a neighbour of that input, and size = (|frontier|, |inputs|).
AdjPairsAreSampledEdges ==
    s_pc = "returned" =>
        \A l \in 1..Len(s_layers) :
            LET L == s_layers[l]
                a == s_adjs[Len(s_layers) - l + 1]
            IN  /\ a.size = <<Len(L.frontier), Len(L.inputs)>>
                /\ a.dst = OwnerIds(L.cnt, 1)
                /\ Len(a.src) = Len(L.out)
                /\ \A j \in 1..Len(L.out) :
                      /\ L.frontier[a.src[j] + 1] = L.out[j]
                      /\ L.out[j] \in Range(neighbors(s_csr, L.frontier[a.dst[j] + 1]))

\* C14: in every pass the kernel returns, with counts[i] = min(k, degree(inputs[i]))
\* at position i and the outputs of input i, all neighbours of it, at their
\* place in the concatenation.
KernelCountsPerInput ==
    \A l \in 1..Len(s_layers) :
        LET L == s_layers[l]
            owner == OwnerIds(L.cnt, 1)
        IN  /\ ~L.kernel_panic
            /\ Len(L.cnt) = Len(L.inputs)
            /\ \A i \in 1..Len(L.inputs) :
                  L.cnt[i] = Min(L.k, degree(s_csr, L.inputs[i]))
            /\ Len(L.out) = Len(owner)
            /\ \A j \in 1..Len(L.out) :
                  L.out[j] \in Range(neighbors(s_csr, L.inputs[owner[j] + 1]))

DuplicateSeedsKeepOwnIds ==
    \A l \in Reindexed :
        LET L == s_layers[l]
        IN  (~L.panic /\ ~NoRepeat(L.inputs)) => L.row_idx = OwnerIds(L.cnt, 1)

\* C17: a returned sample has one Adj per fan-out, each pass took the frontier
\* of the pass before as its inputs, the sizes chain from |nodes| down to
\* |seeds|, and the seeds are a prefix of the returned nodes (all of them for
\* an empty fan-out list).
LayersChain ==
    s_pc = "returned" =>
        LET n == Len(s_sizes)
        IN  /\ Len(s_adjs) = n
            /\ Len(s_layers) = n
            /\ \A l \in 1..n :
                  /\ s_layers[l].k = s_sizes[l]
                  /\ s_layers[l].inputs = IF l = 1 THEN s_seeds ELSE s_layers[l - 1].frontier
                  /\ s_adjs[n - l + 1].size = <<Len(s_layers[l].frontier), Len(s_layers[l].inputs)>>
            /\ \A i \in 1..(n - 1) : s_adjs[i].size[2] = s_adjs[i + 1].size[1]
            /\ n > 0 => s_adjs[1].size[1] = Len(s_nodes) /\ s_adjs[n].size[2] = Len(s_seeds)
            /\ n = 0 => s_nodes = s_seeds /\ s_adjs = <<>>
            /\ Len(s_nodes) >= Len(s_seeds)
            /\ SubSeq(s_nodes, 1, Len(s_seeds)) = s_seeds

LayersChainWitness ==
    /\ s_pc = "returned"
    /\ Len(s_adjs) = 2
    /\ s_adjs[1].size[1] > s_adjs[1].size[2]
    /\ s_adjs[2].size[1] > s_adjs[2].size[2]

----------------------------------------------------------------------------
(* reorder.rs: the rebuild of the CSR with both endpoints of every edge     *)
(* rewritten through the vector vs.                                         *)

\* The graphs that are reordered.
ReorderGraphs ==
    { <<<<0, 1>>, <<0, 2>>>>,
      <<<<0, 1>>, <<1, 2>>, <<2, 0>>>>,
      <<<<0, 2>>, <<1, 0>>, <<1, 1>>, <<2, 1>>>>,
      <<<<2, 0>>, <<2, 1>>, <<2, 2>>>>,
      <<<<0, 1>>, <<1, 0>>>>,
      <<<<0, 3>>, <<1, 2>>, <<3, 0>>>> }

\* CSR::from (csr.rs) of those graphs, for the schedules that leave the CSR well formed.
ReorderCSRs ==
    {c \in {from_buffer(buf, splits, SumChunksPadded(buf, splits)) :
                buf \in ReorderGraphs, splits \in 0..MaxSplits} : WellFormedCSR(c)}

\* Every vector holding each of 0..n-1 once.
Bijections(n) ==
    {f \in [1..n -> 0..(n - 1)] : \A i, j \in 1..n : f[i] = f[j] => i = j}

\* csr.edges().map(|e| Edge(vs[e.0 as usize], vs[e.1 as usize]))
Renamed(csr, vs) ==
    LET es == edges(csr) IN [i \in 1..Len(es) |-> <<vs[es[i][1] + 1], vs[es[i][2] + 1]>>]

ReorderInit ==
    /\ CodecIdle
    /\ BuildIdle
    /\ UnionIdle
    /\ AtomIdle
    /\ IngestIdle
    /\ SampIdle
    /\ ProbIdle
    /\ LateIdle
    /\ r_csr \in ReorderCSRs
    /\ r_vs = <<>>
    /\ r_new = CSR_new
    /\ r_pc = "input"

ReorderFrame == UNCHANGED <<codecVars, buildVars, unionVars, atomVars, ingestVars, sampVars, probVars, lateVars>>

\* vs is some vector holding each vertex once.
ChooseOrder ==
    /\ r_pc = "input"
    /\ r_vs' \in Bijections(order(r_csr))
    /\ r_pc' = "sorted"
    /\ UNCHANGED <<r_csr, r_new>>
    /\ ReorderFrame

\* let new_csr = CSR::from_edges_with_capacity(csr.size(), renamed edges);
\* it panics when edges() does.
Rebuild ==
    /\ r_pc = "sorted"
    /\ IF edges(r_csr) = CorruptEdges
       THEN r_pc' = "panicked" /\ UNCHANGED r_new
       ELSE /\ \E splits \in 0..Max(MaxSplits, order(r_csr)) :
                  r_new' = from_buffer(Renamed(r_csr, r_vs), splits,
                                       SumChunksPadded(Renamed(r_csr, r_vs), splits))
            /\ r_pc' = "done"
    /\ UNCHANGED <<r_csr, r_vs>>
    /\ ReorderFrame

ReorderNext == ChooseOrder \/ Rebuild

SpecReorder == ReorderInit /\ [][ReorderNext]_vars

\* C11: the rebuilt CSR has, for every u, neighbors(vs[u]) = the ascending list
\* of {vs[v] : v a neighbour of u in the input}, and as many edges as the input.
ReorderRenamesAdj ==
    r_pc \in {"done", "panicked"} =>
        /\ r_pc = "done"
        /\ size(r_new) = size(r_csr)
        /\ \A u \in 0..(order(r_csr) - 1) :
              neighbors(r_new, r_vs[u + 1]) =
                  SortSet({r_vs[v + 1] : v \in Range(neighbors(r_csr, u))})

----------------------------------------------------------------------------
(* csr/par.rs probability_calculation / calc_prob and reorder.rs            *)
(* by_access_probabilites / calc_prob.  An f64 is held as an integer number *)
(* of 1/Unit, which is exact for the fan-outs and degrees used here.        *)

\* 1f64, the weight of a seed call.
Unit == 64

\* f64::MAX
F64_MAX == 2147483647

\* The graphs of the probability computation (order 5, threshold 3): vertex 0
\* has out-degree 3 and vertex 3 in-degree 3; 1 and 2 form a cycle, 0, 3 and 4
\* another, and 4 has a self-loop.
ProbGraphs ==
    { <<<<0, 1>>, <<0, 2>>, <<0, 3>>, <<1, 3>>, <<2, 3>>, <<3, 4>>, <<4, 0>>>>,
      <<<<0, 1>>, <<0, 2>>, <<0, 3>>, <<1, 2>>, <<1, 3>>, <<2, 1>>, <<2, 3>>, <<3, 4>>,
        <<4, 0>>, <<4, 4>>>> }

ProbFanOuts == {1, 2}

\* (csr.order() as f64).sqrt().ceil() as usize
CeilSqrt(n) == CHOOSE t \in 0..n : t * t >= n /\ \A r \in 0..(t - 1) : r * r < n

\* The edges of a CSR of csr/mod.rs, by adj.
RECURSIVE adj_edges(_, _)
adj_edges(csr, u) ==
    IF u >= order(csr) THEN <<>>
    ELSE [i \in 1..Len(adj(csr, u)) |-> <<u, adj(csr, u)[i]>>] \o adj_edges(csr, u + 1)

\* CSR::reverse: the CSR built from the flipped edges.
reverse(csr) ==
    LET es == adj_edges(csr, 0)
        flipped == [i \in 1..Len(es) |-> <<es[i][2], es[i][1]>>]
    IN  edgelist_to_csr(flipped, FALSE, SumChunks(flipped, 0))

\* degree of a CSR of csr/mod.rs.
adj_degree(csr, v) == IF adj(csr, v) = Corrupt THEN -1 ELSE Len(adj(csr, v))

\* incoming.adj(v) (csr/par.rs) / incoming.neighbors(v) (reorder.rs)
IncomingOf(fn, incoming, v) ==
    IF fn = "probability_calculation" THEN adj(incoming, v) ELSE neighbors(incoming, v)

\* The neighbour list calc_prob walks.  incoming never changes once it is
\* built, so the list of each vertex is decoded once and kept in p_adj.
Incoming(v) == p_adj[v + 1]

\* prob without the division by max(in_degree, k).
Prob_unscaled(k, in_degree, weight) == k * weight

\* (k as f64 / (max(in_degree, k) as f64)) * weight; unused where the divisor is 0.
Prob(k, in_degree, weight) ==
    IF Max(in_degree, k) = 0 THEN 0 ELSE (k * weight) \div Max(in_degree, k)

Threshold == CeilSqrt(order(p_graph))

\* The CSR handed to the computation: CSR::from of csr/mod.rs for
\* probability_calculation, a well formed CSR::from of csr.rs for
\* by_access_probabilites.
ProbCSRs(fn) ==
    IF fn = "probability_calculation"
    THEN {edgelist_to_csr(buf, FALSE, SumChunks(buf, 0)) : buf \in ProbGraphs}
    ELSE {c \in UNION {{from_buffer(buf, splits, SumChunksPadded(buf, splits)) :
                             splits \in 0..IdCount(buf)} : buf \in ProbGraphs} :
             WellFormedCSR(c)}

\* train_idx: a mask over the vertices with at most MaxTrain training vertices.
TrainMasks(n) ==
    {m \in [1..n -> BOOLEAN] : Cardinality({i \in 1..n : m[i]}) <= MaxTrain}

\* A call that takes sizes as its caller found it, before sizes.next().
Call_nodepth(v, weight, d) ==
    [v |-> v, weight |-> weight, d |-> 1, i |-> 1, adding |-> FALSE, old |-> 0]

\* A call of calc_prob in progress: its vertex, its weight, the position of
\* its k in sizes, the next neighbour of its loop, and, while it is inside
\* atomic_add_f64, the value `old` of that call.
Call(v, weight, d) ==
    [v |-> v, weight |-> weight, d |-> d, i |-> 1, adding |-> FALSE, old |-> 0]

ProbInit ==
    /\ CodecIdle
    /\ BuildIdle
    /\ UnionIdle
    /\ AtomIdle
    /\ IngestIdle
    /\ SampIdle
    /\ ReordIdle
    /\ LateIdle
    /\ p_fn = ""
    /\ p_graph = CSR_new
    /\ p_train = <<>>
    /\ p_sizes = <<>>
    /\ p_incoming = CSR_new
    /\ p_adj = <<>>
    /\ p_in = <<>>
    /\ p_out = <<>>
    /\ p_p = <<>>
    /\ p_stack = <<>>
    /\ p_probs = <<>>
    /\ p_pc = "start"

ProbFrame ==
    UNCHANGED <<codecVars, buildVars, unionVars, atomVars, ingestVars, sampVars, reordVars, lateVars>>

\* One of the two functions is called on a graph, a mask and a list of fan-outs.
ProbCall ==
    /\ p_pc = "start"
    /\ \E fn \in {"probability_calculation", "by_access_probabilites"} :
          /\ p_fn' = fn
          /\ \E g \in ProbCSRs(fn) :
                /\ p_graph' = g
                /\ p_train' \in TrainMasks(order(g))
    /\ p_sizes' \in SeqsUpTo(ProbFanOuts, MaxProbLayers)
    /\ p_pc' = "input"
    /\ UNCHANGED <<p_incoming, p_adj, p_in, p_out, p_p, p_stack, p_probs>>
    /\ ProbFrame

\* incoming, threshold, out_degree, in_degree, p, and the seed calls of for_each.
\* A degree that panics ends the computation.
ProbPrepare ==
    /\ p_pc = "input"
    /\ \E inc \in
          (IF p_fn = "probability_calculation"
           THEN {reverse(p_graph)}
           ELSE {from_buffer(Flipped(p_graph), splits, SumChunksPadded(Flipped(p_graph), splits)) :
                    splits \in 0..order(p_graph)}) :
          LET n == order(p_graph)
              out == [v \in 1..n |->
                        IF p_fn = "probability_calculation" THEN adj_degree(p_graph, v - 1)
                        ELSE degree(p_graph, v - 1)]
              in == [v \in 1..n |->
                        IF p_fn = "probability_calculation" THEN adj_degree(inc, v - 1)
                        ELSE degree(inc, v - 1)]
          IN  /\ p_incoming' = inc
              /\ IF \E v \in 1..n : out[v] < 0 \/ in[v] < 0
                 THEN /\ p_pc' = "panicked"
                      /\ UNCHANGED <<p_adj, p_in, p_out, p_p, p_stack>>
                 ELSE /\ p_pc' = "running"
                      /\ p_adj' = [v \in 1..n |-> IncomingOf(p_fn, inc, v - 1)]
                      /\ p_in' = in
                      /\ p_out' = out
                      /\ p_p' = [v \in 1..n |-> 0]
                      /\ p_stack' = [v \in 1..n |->
                                       IF p_train[v] THEN <<Call(v - 1, Unit, 1)>> ELSE <<>>]
    /\ UNCHANGED <<p_fn, p_graph, p_train, p_sizes, p_probs>>
    /\ ProbFrame

\* The innermost call of seed task t has nothing left to do: sizes.next() is
\* None, in_degree[v] is at the threshold, or its loop is over.
CallOver(c) ==
    \/ c.d > Len(p_sizes)
    \/ p_in[c.v + 1] >= Threshold
    \/ c.i > Len(Incoming(c.v))

\* The calls left on a stack once every call that has nothing left to do has
\* returned to its caller.
RECURSIVE Unwind(_)
Unwind(stack) ==
    IF stack = <<>> \/ ~CallOver(Last(stack)) THEN stack
    ELSE Unwind(SubSeq(stack, 1, Len(stack) - 1))

\* The innermost call of seed task t returns, and so does each caller whose
\* loop is over by then.
ProbReturn(t) ==
    /\ p_pc = "running"
    /\ p_stack[t] # <<>>
    /\ CallOver(Last(p_stack[t]))
    /\ p_stack' = [p_stack EXCEPT ![t] = Unwind(@)]
    /\ UNCHANGED <<p_fn, p_graph, p_train, p_sizes, p_incoming, p_adj, p_in, p_out, p_p, p_probs, p_pc>>
    /\ ProbFrame

\* The loop of the innermost call of seed task t takes the next u of incoming:
\* for out_degree[u] < threshold it enters atomic_add_f64 and loads `old`,
\* otherwise it goes on to the next neighbour.
ProbVisit(t) ==
    /\ p_pc = "running"
    /\ p_stack[t] # <<>>
    /\ ~CallOver(Last(p_stack[t]))
    /\ ~Last(p_stack[t]).adding
    /\ LET c == Last(p_stack[t])
           u == Incoming(c.v)[c.i]
           top == Len(p_stack[t])
       IN  IF p_out[u + 1] < Threshold
           THEN p_stack' = [p_stack EXCEPT ![t][top].adding = TRUE,
                                           ![t][top].old = p_p[u + 1]]
           ELSE p_stack' = [p_stack EXCEPT ![t][top].i = @ + 1]
    /\ UNCHANGED <<p_fn, p_graph, p_train, p_sizes, p_incoming, p_adj, p_in, p_out, p_p, p_probs, p_pc>>
    /\ ProbFrame

\* compare_exchange_weak of the atomic_add_f64 of seed task t: on Ok the sum is
\* stored and calc_prob is called on u; on Err(prev) old = prev.  A spurious
\* failure leaves old as it is.
ProbExchange(t) ==
    /\ p_pc = "running"
    /\ p_stack[t] # <<>>
    /\ Last(p_stack[t]).adding
    /\ LET c == Last(p_stack[t])
           prob == Prob(p_sizes[c.d], p_in[c.v + 1], c.weight)
           u == Incoming(c.v)[c.i]
           top == Len(p_stack[t])
           next == [p_stack[t] EXCEPT ![top].i = @ + 1,
                                      ![top].adding = FALSE,
                                      ![top].old = 0]
       IN  IF compare_exchange_matches(p_p[u + 1], c.old)
           THEN /\ p_p' = [p_p EXCEPT ![u + 1] = c.old + prob]
                /\ p_stack' = [p_stack EXCEPT ![t] = Append(next, Call(u, prob, c.d + 1))]
           ELSE /\ p_stack' = [p_stack EXCEPT ![t][top].old = p_p[u + 1]]
                /\ UNCHANGED p_p
    /\ UNCHANGED <<p_fn, p_graph, p_train, p_sizes, p_incoming, p_adj, p_in, p_out, p_probs, p_pc>>
    /\ ProbFrame

\* for_each is over: the vector of f64 is collected from p.
ProbCollect ==
    /\ p_pc = "running"
    /\ \A t \in 1..Len(p_stack) : p_stack[t] = <<>>
    /\ p_probs' = [v \in 1..Len(p_p) |->
                     IF p_out[v] >= Threshold THEN F64_MAX
                     ELSE (IF p_train[v] THEN Unit ELSE 0) + p_p[v]]
    /\ p_pc' = "done"
    /\ UNCHANGED <<p_fn, p_graph, p_train, p_sizes, p_incoming, p_adj, p_in, p_out, p_p, p_stack>>
    /\ ProbFrame

ProbNext ==
    \/ ProbCall
    \/ ProbPrepare
    \/ \E t \in 1..Len(p_stack) : ProbReturn(t)
    \/ \E t \in 1..Len(p_stack) : ProbVisit(t)
    \/ \E t \in 1..Len(p_stack) : ProbExchange(t)
    \/ ProbCollect

SpecProb == ProbInit /\ [][ProbNext]_vars

\* The edges of the graph handed to the computation.
ProbEdges ==
    IF p_fn = "probability_calculation" THEN adj_edges(p_graph, 0) ELSE edges(p_graph)

\* G^-1.adj(v), out_degree and in_degree of the graph.
InNeighbours(v) ==
    SortSet({ProbEdges[i][1] : i \in {j \in 1..Len(ProbEdges) : ProbEdges[j][2] = v}})

OutDegree(v) == Cardinality({i \in 1..Len(ProbEdges) : ProbEdges[i][1] = v})

\* propagate(v, weight, sizes) run sequentially on the vector p.
RECURSIVE propagate(_, _, _, _)
RECURSIVE propagate_loop(_, _, _, _, _)
propagate(p, v, weight, d) ==
    IF d > Len(p_sizes) THEN p
    ELSE IF Len(InNeighbours(v)) >= Threshold THEN p
    ELSE propagate_loop(p, v, Prob(p_sizes[d], Len(InNeighbours(v)), weight), d, 1)

propagate_loop(p, v, contrib, d, i) ==
    IF i > Len(InNeighbours(v)) THEN p
    ELSE LET u == InNeighbours(v)[i]
         IN  IF OutDegree(u) >= Threshold THEN propagate_loop(p, v, contrib, d, i + 1)
             ELSE propagate_loop(
                      propagate([p EXCEPT ![u + 1] = @ + contrib], u, contrib, d + 1),
                      v, contrib, d, i + 1)

\* propagate from every training vertex in turn, from vertex v on.
RECURSIVE propagate_all(_, _)
propagate_all(p, v) ==
    IF v >= order(p_graph) THEN p
    ELSE propagate_all(IF p_train[v + 1] THEN propagate(p, v, Unit, 1) ELSE p, v + 1)

\* The output of the sequential run.
SequentialProbs ==
    LET p == propagate_all([v \in 1..order(p_graph) |-> 0], 0)
    IN  [v \in 1..order(p_graph) |->
            IF OutDegree(v - 1) >= Threshold THEN F64_MAX
            ELSE (IF p_train[v] THEN Unit ELSE 0) + p[v]]

\* C18: with exact addition the computation returns, under every interleaving
\* of the seed tasks, the vector of the sequential propagate from every
\* training vertex: the maximum value at out_degree >= threshold, elsewhere the
\* sum of the contributions plus 1 for a training vertex.
ProbsEqualSequential ==
    p_pc \in {"done", "panicked"} => p_pc = "done" /\ p_probs = SequentialProbs

\* The same for the runs that return.
ProbsEqualSequentialReturned ==
    p_pc = "done" => p_probs = SequentialProbs

\* What holds of the calls in progress: a call made by another call is on a
\* vertex below the out-degree threshold and has at most the weight of its
\* caller; a call inside atomic_add_f64 adds to such a vertex; a call on a
\* vertex at the in-degree threshold has made no add and no call.
PruneInv ==
    p_pc \in {"running", "done"} =>
        /\ \A v \in 1..Len(p_p) : p_out[v] >= Threshold => p_p[v] = 0
        /\ \A t \in 1..Len(p_stack) : \A j \in 1..Len(p_stack[t]) :
              LET c == p_stack[t][j]
              IN  /\ j >= 2 =>
                        /\ p_out[c.v + 1] < Threshold
                        /\ c.weight <= p_stack[t][j - 1].weight
                  /\ c.adding =>
                        /\ p_out[Incoming(c.v)[c.i] + 1] < Threshold
                        /\ p_in[c.v + 1] < Threshold
                  /\ p_in[c.v + 1] >= Threshold =>
                        /\ ~c.adding
                        /\ c.i = 1
                        /\ j = Len(p_stack[t])

\* What holds of every add: it targets a vertex below the out-degree threshold,
\* it is made by a call on a vertex below the in-degree threshold, and it adds
\* at most the weight of that call.
PruneStep ==
    p_pc = "running" =>
        \A u \in 1..Len(p_p) :
            p_p'[u] # p_p[u] =>
                /\ p_out[u] < Threshold
                /\ \E t \in 1..Len(p_stack) :
                      /\ p_stack[t] # <<>>
                      /\ Last(p_stack[t]).adding
                      /\ Incoming(Last(p_stack[t]).v)[Last(p_stack[t]).i] = u - 1
                      /\ p_in[Last(p_stack[t]).v + 1] < Threshold
                      /\ p_p'[u] - p_p[u] <= Last(p_stack[t]).weight
                      /\ p_p'[u] - p_p[u] >= 0

\* C27: during propagation no add targets, and no recursion continues through,
\* a vertex with out_degree >= threshold; a call on a vertex with
\* in_degree >= threshold makes no add and no call; and every contribution
\* added is at most the weight of the call that added it.
PropagationPrunes == []PruneInv /\ [][PruneStep]_vars

\* A call made by another call is in progress, a call on a vertex at the
\* in-degree threshold is in progress, and a loop has passed over a
\* neighbour at the out-degree threshold.
PropagationPrunesWitness ==
    /\ p_pc = "running"
    /\ \E t \in 1..Len(p_stack) : Len(p_stack[t]) >= 2
    /\ \E t \in 1..Len(p_stack) : \E j \in 1..Len(p_stack[t]) :
          p_in[p_stack[t][j].v + 1] >= Threshold
    /\ \E t \in 1..Len(p_stack) : \E j \in 1..Len(p_stack[t]) :
          /\ p_stack[t][j].i >= 2
          /\ p_in[p_stack[t][j].v + 1] < Threshold
          /\ p_out[Incoming(p_stack[t][j].v)[p_stack[t][j].i - 1] + 1] >= Threshold

\* A step of some seed task.
ProbStep ==
    \E t \in 1..Len(p_stack) : ProbReturn(t) \/ ProbVisit(t) \/ ProbExchange(t)

\* The propagation under fair scheduling: while some seed task can take a step
\* one is taken, and the vector is collected once for_each is over.
FairSpecProb == SpecProb /\ WF_vars(ProbStep) /\ WF_vars(ProbCollect)

\* The calls of a seed task nested below its seed call are at most as many as
\* the fan-outs.
DepthInv ==
    \A t \in 1..Len(p_stack) : Len(p_stack[t]) <= Len(p_sizes) + 1

\* C28: under fair scheduling the propagation phase terminates, cycles and
\* self-loops included: the recursion of calc_prob below a seed call is never
\* deeper than the fan-out list is long, every atomic_add_f64 returns, and the
\* vector is collected.
PropagationTerminates ==
    []DepthInv /\ ((p_pc = "running") ~> (p_pc = "done"))

\* A seed task has gone round a self-loop down to the last fan-out while the
\* atomic_add_f64 of another holds a value that the cell no longer has.
PropagationTerminatesWitness ==
    /\ p_pc = "running"
    /\ Len(p_sizes) = MaxProbLayers
    /\ \E t \in 1..Len(p_stack) :
          /\ Len(p_stack[t]) = Len(p_sizes) + 1
          /\ \A j \in 1..Len(p_stack[t]) : p_stack[t][j].v = p_stack[t][1].v
    /\ \E t \in 1..Len(p_stack) :
          /\ p_stack[t] # <<>>
          /\ Last(p_stack[t]).adding
          /\ Last(p_stack[t]).old #
                p_p[Incoming(Last(p_stack[t]).v)[Last(p_stack[t]).i] + 1]

----------------------------------------------------------------------------
(* csr/par.rs find_index_edgelist and par.rs find_index, one window of the *)
(* scan at a time.                                                          *)

\* Sorted slices of edges: the sources never decrease.
SplitSlices ==
    {[i \in 1..Len(us) |-> <<us[i], 0>>] :
        us \in {q \in SeqsUpTo(0..2, MaxSlice) :
                   \A i \in 1..(Len(q) - 1) : q[i] <= q[i + 1]}}

SplitInit ==
    /\ CodecIdle
    /\ BuildIdle
    /\ UnionIdle
    /\ AtomIdle
    /\ IngestIdle
    /\ SampIdle
    /\ ReordIdle
    /\ ProbIdle
    /\ SumIdle
    /\ ChunkIdle
    /\ f_xs \in SplitSlices
    /\ f_i = 0
    /\ f_cont = TRUE
    /\ f_wins = <<>>
    /\ f_res = -1
    /\ f_pc = "scan"

SplitFrame ==
    UNCHANGED <<codecVars, buildVars, unionVars, atomVars, ingestVars, sampVars, reordVars,
                probVars, sumVars, chunkVars>>

\* The scan yields the next (start, end) and the for body searches xs[start..end].
SplitWindow ==
    /\ f_pc = "scan"
    /\ f_cont
    /\ LET n == Len(f_xs) \div 2
           offset == 2 * f_i
           start == Max(n - offset, 0)
           end == n + offset
           whole == ~(1 <= start /\ start < Len(f_xs)) \/ ~(2 <= end /\ end < Len(f_xs))
           win == IF whole THEN [start |-> 0, end |-> Len(f_xs), whole |-> TRUE]
                  ELSE [start |-> start, end |-> end, whole |-> FALSE]
           found == FirstMismatch(f_xs, win.start, win.end)
       IN  /\ f_cont' = ~whole
           /\ f_wins' = Append(f_wins, win)
           /\ f_i' = f_i + 1
           /\ IF found >= 0
              THEN f_res' = found /\ f_pc' = "done"
              ELSE UNCHANGED <<f_res, f_pc>>
    /\ UNCHANGED f_xs
    /\ SplitFrame

\* The scan yields None once cont is false: the for loop ends, None is returned.
SplitNone ==
    /\ f_pc = "scan"
    /\ ~f_cont
    /\ f_res' = -1
    /\ f_pc' = "done"
    /\ UNCHANGED <<f_xs, f_i, f_cont, f_wins>>
    /\ SplitFrame

SplitNext == SplitWindow \/ SplitNone

SpecSplit == SplitInit /\ [][SplitNext]_vars

\* The 0-based positions i of xs with xs[i].u # xs[i + 1].u inside a window.
Boundaries(xs, win) ==
    {i \in win.start..(win.end - 2) : xs[i + 1][1] # xs[i + 2][1]}

\* C24: on every sorted slice the split search inspects only windows inside
\* the slice and none after the window that covers the whole slice; it returns
\* None exactly when all sources are equal, and otherwise the first index of
\* the first window holding one at which the source changes, which is below
\* len - 1, so that both parts of the split at i + 1 are non-empty and no
\* source group is cut.
SplitSearchSafe ==
    /\ \A j \in 1..Len(f_wins) :
          /\ 0 <= f_wins[j].start
          /\ f_wins[j].start <= f_wins[j].end
          /\ f_wins[j].end <= Len(f_xs)
          /\ f_wins[j].whole <=> (f_wins[j].start = 0 /\ f_wins[j].end = Len(f_xs))
          /\ j < Len(f_wins) => ~f_wins[j].whole /\ Boundaries(f_xs, f_wins[j]) = {}
    /\ f_pc = "done" =>
          /\ f_res = find_index_edgelist(f_xs)
          /\ f_res = find_index(f_xs)
          /\ (f_res = -1) <=> (\A i, j \in 1..Len(f_xs) : f_xs[i][1] = f_xs[j][1])
          /\ f_res = -1 => f_wins # <<>> /\ Last(f_wins).whole
          /\ f_res # -1 =>
                /\ f_res \in Boundaries(f_xs, Last(f_wins))
                /\ \A i \in Boundaries(f_xs, Last(f_wins)) : f_res <= i
                /\ 0 <= f_res
                /\ f_res < Len(f_xs) - 1
                /\ SubSeq(f_xs, 1, f_res + 1) # <<>>
                /\ SubSeq(f_xs, f_res + 2, Len(f_xs)) # <<>>
                /\ \A a \in 1..(f_res + 1) : \A b \in (f_res + 2)..Len(f_xs) :
                      f_xs[a][1] # f_xs[b][1]

\* The search has returned an index found in a window around the midpoint
\* that does not start at 0, after a window that held none.
SplitSearchSafeWitness ==
    /\ f_pc = "done"
    /\ f_res >= 0
    /\ Len(f_wins) >= 2
    /\ ~Last(f_wins).whole
    /\ Last(f_wins).start >= 1

----------------------------------------------------------------------------
(* par.rs exclusive_sum: the fold over the chunks, then the reduce of       *)
(* neighbouring results in any order.                                       *)

\* The ways n items are cut into at most MaxSumChunks consecutive chunks, empty
\* chunks included.
ChunkLens(n) ==
    {lens \in UNION {[1..k -> 0..n] : k \in 1..MaxSumChunks} :
        FetchAddAll(0, lens) = n}

SumInit ==
    /\ CodecIdle
    /\ BuildIdle
    /\ UnionIdle
    /\ AtomIdle
    /\ IngestIdle
    /\ SampIdle
    /\ ReordIdle
    /\ ProbIdle
    /\ SplitIdle
    /\ ChunkIdle
    /\ e_vect \in SeqsUpTo(0..MaxSumItem, MaxSumLen)
    /\ e_lens = <<>>
    /\ e_parts = <<>>
    /\ e_pc = "fold"

SumFrame ==
    UNCHANGED <<codecVars, buildVars, unionVars, atomVars, ingestVars, sampVars, reordVars,
                probVars, splitVars, chunkVars>>

\* once(init).chain(vect) is split into chunks; each chunk is folded from
\* Vec::new() and its result enters the reduce next to the identity Vec::new().
SumFold ==
    /\ e_pc = "fold"
    /\ \E lens \in ChunkLens(Len(e_vect) + 1) :
          LET chunks == CutChunks(<<0>> \o e_vect, lens)
          IN  /\ e_lens' = lens
              /\ e_parts' = [i \in 1..Len(chunks) |->
                                ReduceSum(<<>>, FoldSum(<<>>, chunks[i]))]
    /\ e_pc' = "reduce"
    /\ UNCHANGED e_vect
    /\ SumFrame

\* Two neighbouring results are reduced into one.
SumReduce ==
    /\ e_pc = "reduce"
    /\ \E i \in 1..(Len(e_parts) - 1) :
          e_parts' = SubSeq(e_parts, 1, i - 1)
                     \o <<ReduceSum(e_parts[i], e_parts[i + 1])>>
                     \o SubSeq(e_parts, i + 2, Len(e_parts))
    /\ UNCHANGED <<e_vect, e_lens, e_pc>>
    /\ SumFrame

\* One result is left: exclusive_sum returns it.
SumReturn ==
    /\ e_pc = "reduce"
    /\ Len(e_parts) = 1
    /\ e_pc' = "done"
    /\ UNCHANGED <<e_vect, e_lens, e_parts>>
    /\ SumFrame

SumNext == SumFold \/ SumReduce \/ SumReturn

SpecSum == SumInit /\ [][SumNext]_vars

\* C26: for every vector v and every way the fold cuts the chained sequence
\* into consecutive chunks, exclusive_sum(0, v) returns the vector out of length
\* |v| + 1 with out[0] = 0 and out[i + 1] = out[i] + v[i], in whatever order
\* neighbouring results are reduced.
ExclusiveSumScans ==
    e_pc = "done" =>
        LET out == e_parts[1]
        IN  /\ Len(out) = Len(e_vect) + 1
            /\ out[1] = 0
            /\ \A i \in 1..Len(e_vect) : out[i + 1] = out[i] + e_vect[i]
            /\ exclusive_sum(0, e_vect, e_lens) = out

\* C26 witness: a vector of two or more items, not all 0, was summed with a
\* chunk that holds the initial element only and an empty chunk.
ExclusiveSumScansWitness ==
    /\ e_pc = "done"
    /\ Len(e_vect) >= 2
    /\ e_vect[1] > 0
    /\ Len(e_lens) >= 3
    /\ e_lens[1] = 1
    /\ \E i \in 2..Len(e_lens) : e_lens[i] = 0

----------------------------------------------------------------------------
(* csr/mod.rs: CSRBuilder::new().bytes_per_chunk(b) and build on the result. *)

\* The arguments of bytes_per_chunk: small multiples of BYTES_PER_EDGE, numbers
\* that are no multiple, and multiples of DEFAULT_EDGES_PER_CHUNK.
ChunkBytes ==
    {j * BYTES_PER_EDGE : j \in 1..MaxEdgesPerChunk}
    \cup {j * BYTES_PER_EDGE + 4 : j \in 0..MaxEdgesPerChunk}
    \cup {j * DEFAULT_EDGES_PER_CHUNK : j \in 1..MaxEdgesPerChunk}

\* CSRBuilder::new(): edges_per_chunk is DEFAULT_EDGES_PER_CHUNK.
ChunkInit ==
    /\ CodecIdle
    /\ BuildIdle
    /\ UnionIdle
    /\ AtomIdle
    /\ SampIdle
    /\ ReordIdle
    /\ ProbIdle
    /\ SplitIdle
    /\ SumIdle
    /\ k_bytes \in ChunkBytes
    /\ k_res = "none"
    /\ i_fn = "build"
    /\ i_items \in IngestInputs
    /\ i_n = DEFAULT_EDGES_PER_CHUNK
    /\ i_pos = 0
    /\ i_buf = <<>>
    /\ i_csr = CSR_new
    /\ i_fed = <<>>
    /\ i_res = NoResult
    /\ i_pc = "config"

\* bytes_per_chunk(k_bytes): Ok with the new edges_per_chunk, and build is
\* called on it; or Err(self).
BytesPerChunk ==
    /\ i_pc = "config"
    /\ IF k_bytes % BYTES_PER_EDGE = 0
       THEN /\ k_res' = "ok"
            /\ i_n' = k_bytes \div DEFAULT_EDGES_PER_CHUNK
            /\ i_pc' = "loop"
       ELSE /\ k_res' = "err"
            /\ i_pc' = "rejected"
            /\ UNCHANGED i_n
    /\ UNCHANGED <<k_bytes, i_fn, i_items, i_pos, i_buf, i_csr, i_fed, i_res>>
    /\ UNCHANGED <<codecVars, buildVars, unionVars, atomVars, sampVars, reordVars, probVars,
                   splitVars, sumVars>>

ChunkNext == BytesPerChunk \/ BuildPass \/ BuildReturn

SpecChunk == ChunkInit /\ [][ChunkNext]_vars

\* What bytes_per_chunk is to return: Ok with b / BYTES_PER_EDGE edges per
\* chunk for a multiple b of BYTES_PER_EDGE, Err with the builder unchanged
\* otherwise.
ChunkSizeInv ==
    /\ k_res = "ok" =>
          /\ k_bytes % BYTES_PER_EDGE = 0
          /\ i_n = k_bytes \div BYTES_PER_EDGE
          /\ i_n >= 1
    /\ k_res = "err" =>
          /\ k_bytes % BYTES_PER_EDGE # 0
          /\ i_n = DEFAULT_EDGES_PER_CHUNK

\* A pass of the chunk loop pulls at least one item of the iterator.
PassConsumes ==
    (i_pc = "loop" /\ i_pos < Len(i_items) /\ k_res = "ok") => i_pos' > i_pos

EveryPassConsumes == [][PassConsumes]_vars

\* C29: a successful bytes_per_chunk(b), b a positive multiple of
\* BYTES_PER_EDGE, sets the chunk size to b / BYTES_PER_EDGE edges (at least
\* 1), bytes_per_chunk returns Err(self) unchanged for any other b, and every
\* pass of the chunk loop of build on the configured builder consumes at least
\* one item, so that build terminates on every finite iterator.
BuildTerminatesConfigured ==
    /\ []ChunkSizeInv
    /\ EveryPassConsumes

\* bytes_per_chunk rejects exactly the numbers that are no multiple of
\* BYTES_PER_EDGE and leaves the builder as it was; with a chunk size of at
\* least one edge every pass consumes an item.
BytesPerChunkRejects ==
    /\ [](k_res = "ok" => k_bytes % BYTES_PER_EDGE = 0)
    /\ [](k_res = "err" => k_bytes % BYTES_PER_EDGE # 0 /\ i_n = DEFAULT_EDGES_PER_CHUNK)
    /\ [][i_n >= 1 => PassConsumes]_vars

----------------------------------------------------------------------------
(* reorder.rs by_access_probabilites after the propagation: the sort of the *)
(* vertices by probs and the rebuild on the renamed edges.                  *)

\* vs = (0..order).collect(); vs.par_sort_unstable_by(|a, b| probs[b].total_cmp(&probs[a])):
\* descending probs, vertices of equal probs in any order.
AccessSort ==
    /\ p_pc = "done"
    /\ p_fn = "by_access_probabilites"
    /\ r_pc = "idle"
    /\ r_vs' \in {f \in Bijections(Len(p_probs)) :
                    \A i, j \in 1..Len(f) : i < j => p_probs[f[i] + 1] >= p_probs[f[j] + 1]}
    /\ r_csr' = p_graph
    /\ r_pc' = "sorted"
    /\ UNCHANGED r_new
    /\ UNCHANGED <<codecVars, buildVars, unionVars, atomVars, ingestVars, sampVars, probVars,
                   lateVars>>

AccessNext == ProbNext \/ AccessSort \/ Rebuild

\* by_access_probabilites from its call to the pair (new_csr, vs).
SpecAccess == ProbInit /\ [][AccessNext]_vars

\* The position of vertex v in vs.
RankIn(vs, v) == (CHOOSE r \in 1..Len(vs) : vs[r] = v) - 1

\* The vertices with out_degree >= threshold come first in vs.
HubsFirst ==
    \A h, l \in 0..(Len(r_vs) - 1) :
        (p_out[h + 1] >= Threshold /\ p_out[l + 1] < Threshold) =>
            RankIn(r_vs, h) < RankIn(r_vs, l)

\* C30: by_access_probabilites returns vs, the vertices sorted by descending
\* probs, and the CSR in which vertex r is the vertex at position r of vs:
\* its list is the ascending list of the ranks of the neighbours of vs[r] in
\* the input, so that the vertices with out_degree >= threshold have the
\* smallest new ids.
AccessRenamesByRank ==
    (p_fn = "by_access_probabilites" /\ r_pc \in {"done", "panicked"}) =>
        /\ r_pc = "done"
        /\ r_vs \in Bijections(order(p_graph))
        /\ \A i \in 1..(Len(r_vs) - 1) : p_probs[r_vs[i] + 1] >= p_probs[r_vs[i + 1] + 1]
        /\ HubsFirst
        /\ \A r \in 0..(order(p_graph) - 1) :
              neighbors(r_new, r) =
                  SortSet({RankIn(r_vs, w) : w \in Range(neighbors(p_graph, r_vs[r + 1]))})

\* What the rebuild does where it leaves the offsets well formed: vs is
\* sorted by descending probs with the hubs first, and the list of vertex
\* vs[u] of the new CSR is the ascending list of vs[v] over the neighbours v of
\* u, vs being used as the map from old to new ids.
AccessRenamesByValue ==
    (p_fn = "by_access_probabilites" /\ r_pc = "done") =>
        /\ r_vs \in Bijections(order(p_graph))
        /\ \A i \in 1..(Len(r_vs) - 1) : p_probs[r_vs[i] + 1] >= p_probs[r_vs[i + 1] + 1]
        /\ HubsFirst
        /\ WellFormedCSR(r_new) =>
              \A u \in 0..(order(p_graph) - 1) :
                  neighbors(r_new, r_vs[u + 1]) =
                      SortSet({r_vs[v + 1] : v \in Range(neighbors(p_graph, u))})

\* A rebuild with well formed offsets on an order vs that is not its own inverse.
AccessRenamesByValueWitness ==
    /\ p_fn = "by_access_probabilites"
    /\ r_pc = "done"
    /\ WellFormedCSR(r_new)
    /\ \E r \in 1..Len(r_vs) : r_vs[r_vs[r] + 1] # r - 1

====
